---- MODULE Spec2Model ----
(***************************************************************************)
(* LruCache of synapse/util/caches/lrucache.py as a state machine.         *)
(*                                                                         *)
(* One cache instance.  The recency list is modelled with its explicit     *)
(* prev_node / next_node links, the key index `cache` as a function from   *)
(* the resident keys to their nodes.  Every public operation is one        *)
(* action (the operation runs under the instance's lock, so it is atomic   *)
(* with respect to the others).                                            *)
(***************************************************************************)
EXTENDS Integers, Sequences, FiniteSets, TLC

\* ------------------------------------------------------------------ bounds

\* nominal capacities given at construction: 1..MaxNominal
MaxNominal == 2

Range(f) == {f[x] : x \in DOMAIN f}

\* keys are 2-tuples (a flat cache treats them as opaque)
Keys == {<<1, 1>>, <<1, 2>>, <<2, 1>>}
\* values are lists; with a size callback their cost is their length
Values == {<<1>>, <<1, 1>>}
\* the caller's default of get / pop (None, or a sentinel object)
Defaults == {<<-1>>}
\* invalidation callbacks, compared by identity
Callbacks == {"cb1", "cb2"}
\* a callback that raises when it is called
RaisingCallbacks == {"boom"}
\* a callback that calls a synchronized operation of the cache it is attached to
ReenteringCallbacks == {"reenter"}
\* the callbacks argument of get / set: any collection, duplicates included
CallbackArgs ==
    {<<>>} \cup {<<a>> : a \in Callbacks} \cup {<<a, b>> : a \in Callbacks, b \in Callbacks}
\* the callbacks arguments that name one callback only
OneCallbackArgs == {c \in CallbackArgs : Range(c) \subseteq {"cb1"}}
\* what del_multi / invalidate is called with: a key, or a shorter prefix
DelKeys == Keys \cup {<<1>>, <<2>>}
\* cache factors, in halves (0, 0.5, 1): exact as floats
FactorHalves == {0, 1, 2}

\* ------------------------------------------------------------------- state

VARIABLES
    cache,              \* the key index: key -> node
    node,               \* the _Node objects alive: id -> fields
    cached_cache_len,   \* cached_cache_len[0]
    max_size,           \* self.max_size (effective capacity)
    metrics,            \* the CacheMetric handle: what the last operation added to each counter
    size_callback,      \* "len" or "None"
    apply_cache_factor_from_config,
    original_max_size,  \* self._original_max_size
    cache_type,         \* "dict" or "TreeCache"
    TRACK_MEMORY_USAGE, \* caches.TRACK_MEMORY_USAGE
    raised,             \* the last operation ended by an exception of a callback
    fired,              \* how often the last operation ran each <<key, callback>>
    ret,                \* what the last operation returned
    op,                 \* the last operation and its arguments
    lock,               \* the instance's threading.Lock: "free", or the thread holding it
    pc,                 \* where each thread is
    frame,              \* the locals of the thread inside set_cache_factor
    touched,            \* history: the keys set so far, by last touch, latest first
                        \* (followed by SpecLru only)
    call                \* the running call of a function outside LruCache: its
                        \* arguments, its locals and what it has produced so far

vars == <<op, cache, node, cached_cache_len, max_size, metrics, size_callback,
          apply_cache_factor_from_config, original_max_size, cache_type,
          TRACK_MEMORY_USAGE, raised, fired, ret, lock, pc, frame, touched, call>>

\* the threads' part of the state
threads == <<lock, pc, frame>>

\* the root sentinel of the recency list (its key and value are None)
list_root == <<>>
None == <<>>

\* the threads that call the synchronized operations, and the thread of the
\* configuration reload, which calls set_cache_factor
Workers == {"w1", "w2"}
Threads == Workers \cup {"resize"}

\* no thread is inside set_cache_factor
NoFrame == [factor |-> 0, todelete |-> list_root, evicted_len |-> 0]

\* no function outside LruCache is being called
NoCall == [name |-> "none"]

\* no callback has run
NoneFired ==
    [e \in Keys \X (Callbacks \cup RaisingCallbacks \cup ReenteringCallbacks) |-> 0]

\* the metrics handle before an operation has called it (metrics is None when
\* the cache has no name: registered is FALSE)
NoCalls(registered) ==
    [registered |-> registered, hits |-> 0, misses |-> 0, evictions |-> 0,
     memory_usage |-> 0]

\* the mutable part of the instance, threaded through the helpers below
Self ==
    [cache |-> cache, node |-> node, cached_cache_len |-> cached_cache_len,
     max_size |-> max_size,
     metrics |-> [NoCalls(metrics.registered) EXCEPT !.memory_usage = metrics.memory_usage],
     fired |-> NoneFired, ret |-> None, raised |-> FALSE, hung |-> FALSE]

\* ------------------------------------------------------------------- _Node

\* mutant: the callbacks passed take the place of the stored ones
add_callbacks_replacing(stored, callbacks) ==
    IF callbacks = <<>> THEN stored ELSE callbacks

\* mutant: every callback passed is appended, stored already or not
add_callbacks_appending(stored, callbacks) == stored \o callbacks

RECURSIVE add_callbacks(_, _)
\* _Node.add_callbacks: append each callback not already stored
add_callbacks(stored, callbacks) ==
    IF callbacks = <<>> THEN stored
    ELSE add_callbacks(
            IF Head(callbacks) \in Range(stored) THEN stored
            ELSE Append(stored, Head(callbacks)),
            Tail(callbacks))

\* _get_size_of: an estimate of the size of val in bytes, here one unit for the
\* object and one for each element it refers to; (), None and "" count 0
get_size_of(val, recurse) ==
    IF val = <<>> THEN 0 ELSE IF recurse THEN 1 + Len(val) ELSE 1

\* _Node.__init__ (callbacks None is the empty sequence); the node itself and
\* the integer self.memory count one unit each
NewNode(prev_node, next_node, key, value, callbacks) ==
    LET stored == add_callbacks(<<>>, callbacks)
        memory == get_size_of(key, TRUE) + get_size_of(value, TRUE)
                    + get_size_of(stored, FALSE) + 1
    IN  [prev_node |-> prev_node, next_node |-> next_node, key |-> key, value |-> value,
         callbacks |-> stored,
         memory |-> IF TRACK_MEMORY_USAGE THEN memory + 1 ELSE 0]

RECURSIVE run_callbacks(_, _, _)
\* the loop of run_and_clear_callbacks: call each stored callback in turn
run_callbacks(f, key, callbacks) ==
    IF callbacks = <<>> THEN f
    ELSE run_callbacks([f EXCEPT ![<<key, Head(callbacks)>>] = @ + 1], key, Tail(callbacks))

\* mutant: the callbacks are run and the stored list is kept
run_and_keep_callbacks(s, n) ==
    [s EXCEPT !.fired = run_callbacks(@, s.node[n].key, s.node[n].callbacks)]

\* the position of the first callback that does not return to the loop (0 when
\* all do): one that raises, or one that calls a synchronized operation of this
\* cache and waits for the lock, which the operation running it holds
first_raising(callbacks) ==
    LET raising == {i \in 1..Len(callbacks) :
                        callbacks[i] \in RaisingCallbacks \cup ReenteringCallbacks}
    IN  IF raising = {} THEN 0 ELSE CHOOSE i \in raising : \A j \in raising : i <= j

\* mutant: the stored list is cleared also when a callback raises
run_and_clear_callbacks_finally(s, n) ==
    LET stop == first_raising(s.node[n].callbacks)
        ran == IF stop = 0 THEN s.node[n].callbacks ELSE SubSeq(s.node[n].callbacks, 1, stop)
    IN  [s EXCEPT !.fired = run_callbacks(@, s.node[n].key, ran),
                  !.node[n].callbacks = <<>>,
                  !.raised = stop # 0]

\* _Node.run_and_clear_callbacks: an exception of a callback leaves the loop
\* before the stored list is cleared
run_and_clear_callbacks(s, n) ==
    LET stop == first_raising(s.node[n].callbacks)
    IN  IF stop = 0
        THEN [s EXCEPT !.fired = run_callbacks(@, s.node[n].key, s.node[n].callbacks),
                       !.node[n].callbacks = <<>>]
        ELSE [s EXCEPT !.fired = run_callbacks(@, s.node[n].key,
                                               SubSeq(s.node[n].callbacks, 1, stop)),
                       !.raised = TRUE]

\* size_callback(value), for size_callback = len
call_size_callback(value) == Len(value)

\* ---------------------------------------------------------------- LruCache

cache_len(s) ==
    IF size_callback # "None" THEN s.cached_cache_len ELSE Cardinality(DOMAIN s.cache)

\* dict.pop(key, None) on the index
dict_pop(s, key) ==
    [s EXCEPT !.cache = [k \in (DOMAIN s.cache) \ {key} |-> s.cache[k]]]

\* the identity of a new _Node for key: the key itself, unless an older node
\* of that key is still alive
RECURSIVE new_id(_, _)
new_id(s, key) == IF key \in DOMAIN s.node THEN new_id(s, Append(key, 0)) ELSE key

add_node(s, key, value, callbacks) ==
    LET prev_node == list_root
        next_node == s.node[prev_node].next_node
        id == new_id(s, key)
        new == NewNode(prev_node, next_node, key, value, callbacks)
        n1 == [x \in (DOMAIN s.node) \cup {id} |-> IF x = id THEN new ELSE s.node[x]]
        n2 == [n1 EXCEPT ![prev_node].next_node = id]
        n3 == [n2 EXCEPT ![next_node].prev_node = id]
    IN  [s EXCEPT !.node = n3,
                  !.cache = [k \in (DOMAIN s.cache) \cup {key} |->
                                IF k = key THEN id ELSE s.cache[k]],
                  !.cached_cache_len =
                        IF size_callback # "None" THEN @ + call_size_callback(value) ELSE @,
                  !.metrics.memory_usage =
                        IF TRACK_MEMORY_USAGE /\ s.metrics.registered
                        THEN @ + new.memory ELSE @]

move_node_to_front(s, n) ==
    LET prev_node == s.node[n].prev_node
        next_node == s.node[n].next_node
        n1 == [s.node EXCEPT ![prev_node].next_node = next_node]
        n2 == [n1 EXCEPT ![next_node].prev_node = prev_node]
        prev2 == list_root
        next2 == n2[prev2].next_node
        n3 == [n2 EXCEPT ![n].prev_node = prev2]
        n4 == [n3 EXCEPT ![n].next_node = next2]
        n5 == [n4 EXCEPT ![prev2].next_node = n]
        n6 == [n5 EXCEPT ![next2].prev_node = n]
    IN  [s EXCEPT !.node = n6]

\* the value delete_node returns
deleted_len(s, n) ==
    IF size_callback # "None" THEN call_size_callback(s.node[n].value) ELSE 1

\* mutant: the gauge is not lowered when a node is deleted
dec_memory_usage_skipped(s, n) == s

\* metrics.dec_memory_usage(node.memory), when memory is tracked
dec_memory_usage(s, n) ==
    IF TRACK_MEMORY_USAGE /\ s.metrics.registered
    THEN [s EXCEPT !.metrics.memory_usage = @ - s.node[n].memory] ELSE s

\* mutant: the node is unlinked and its callbacks are not run
delete_node_without_callbacks(s, n) ==
    LET prev_node == s.node[n].prev_node
        next_node == s.node[n].next_node
        n1 == [s.node EXCEPT ![prev_node].next_node = next_node]
        n2 == [n1 EXCEPT ![next_node].prev_node = prev_node]
    IN  dec_memory_usage(
            [s EXCEPT !.node = n2,
                      !.cached_cache_len =
                          IF size_callback # "None" THEN @ - deleted_len(s, n) ELSE @], n)

\* delete_node up to its callbacks: the node is unlinked and its cost subtracted
unlink(s, n) ==
    LET prev_node == s.node[n].prev_node
        next_node == s.node[n].next_node
        n1 == [s.node EXCEPT ![prev_node].next_node = next_node]
        n2 == [n1 EXCEPT ![next_node].prev_node = prev_node]
    IN  [s EXCEPT !.node = n2,
                  !.cached_cache_len =
                      IF size_callback # "None" THEN @ - deleted_len(s, n) ELSE @]

delete_node(s, n) ==
    LET s1 == unlink(s, n)
        s2 == run_and_clear_callbacks(s1, n)
    IN  IF s2.raised THEN s2 ELSE dec_memory_usage(s2, n)

\* mutant: the counter counts evicted entries, not their cost
inc_evictions_by_one(s, size) ==
    IF s.metrics.registered THEN [s EXCEPT !.metrics.evictions = @ + 1] ELSE s

\* metrics.inc_evictions(evicted_len)
inc_evictions(s, size) ==
    IF s.metrics.registered THEN [s EXCEPT !.metrics.evictions = @ + size] ELSE s

RECURSIVE evict_once(_)
\* mutant: `if` for `while`: at most one entry is evicted
evict_once(s) ==
    IF cache_len(s) > s.max_size
    THEN LET todelete == s.node[list_root].prev_node
             evicted_len == deleted_len(s, todelete)
             s1 == delete_node(s, todelete)
             s2 == dict_pop(s1, s1.node[todelete].key)
         IN  inc_evictions(s2, evicted_len)
    ELSE s

RECURSIVE evict_keeping_last(_)
\* mutant: the loop stops when a single entry is left
evict_keeping_last(s) ==
    IF cache_len(s) > s.max_size /\ Cardinality(DOMAIN s.cache) > 1
    THEN LET todelete == s.node[list_root].prev_node
             evicted_len == deleted_len(s, todelete)
             s1 == delete_node(s, todelete)
             s2 == dict_pop(s1, s1.node[todelete].key)
         IN  evict_keeping_last(inc_evictions(s2, evicted_len))
    ELSE s

RECURSIVE evict_from_front(_)
\* mutant: the most recently used entry is evicted
evict_from_front(s) ==
    IF cache_len(s) > s.max_size
    THEN LET todelete == s.node[list_root].next_node
             evicted_len == deleted_len(s, todelete)
             s1 == delete_node(s, todelete)
             s2 == dict_pop(s1, s1.node[todelete].key)
         IN  evict_from_front(inc_evictions(s2, evicted_len))
    ELSE s

RECURSIVE evict_at_capacity(_)
\* mutant: `>=` for `>`: a cache that is exactly full is evicted from
evict_at_capacity(s) ==
    IF cache_len(s) >= s.max_size /\ s.cache # <<>>
    THEN LET todelete == s.node[list_root].prev_node
             evicted_len == deleted_len(s, todelete)
             s1 == delete_node(s, todelete)
             s2 == dict_pop(s1, s1.node[todelete].key)
         IN  evict_at_capacity(inc_evictions(s2, evicted_len))
    ELSE s

\* what an iteration of evict reads
evict_reads(s) == <<s.node, s.cache, s.cached_cache_len>>

RECURSIVE evict_loop(_, _)
\* The loop of evict, `seen` being what the iterations so far started from.
\* When todelete is the root, size_callback(None) raises; an iteration that
\* starts from what an earlier one started from means the loop never ends.
evict_loop(s, seen) ==
    IF cache_len(s) > s.max_size
    THEN LET todelete == s.node[list_root].prev_node
             evicted_len == deleted_len(s, todelete)
             s1 == delete_node(s, todelete)
             s2 == dict_pop(s1, s1.node[todelete].key)
         IN  IF todelete = list_root /\ size_callback # "None"
             THEN [s EXCEPT !.raised = TRUE]
             ELSE IF evict_reads(s) \in seen THEN [s EXCEPT !.hung = TRUE]
             ELSE IF s1.raised THEN s1
             ELSE evict_loop(inc_evictions(s2, evicted_len), seen \cup {evict_reads(s)})
    ELSE s

evict(s) == evict_loop(s, {})

\* mutant: a miss that returns None, whatever default the caller gave
cache_get_ignoring_default(s, key, default, callbacks, update_metrics) ==
    IF key \in DOMAIN s.cache
    THEN LET n == s.cache[key]
             s1 == move_node_to_front(s, n)
             s2 == [s1 EXCEPT !.node[n].callbacks = add_callbacks(@, callbacks)]
             s3 == IF update_metrics /\ s.metrics.registered
                   THEN [s2 EXCEPT !.metrics.hits = @ + 1] ELSE s2
         IN  [s3 EXCEPT !.ret = s3.node[n].value]
    ELSE LET s1 == IF update_metrics /\ s.metrics.registered
                   THEN [s EXCEPT !.metrics.misses = @ + 1] ELSE s
         IN  [s1 EXCEPT !.ret = None]

\* mutant: a hit that does not refresh the entry's position
cache_get_without_move(s, key, default, callbacks, update_metrics) ==
    IF key \in DOMAIN s.cache
    THEN LET n == s.cache[key]
             s2 == [s EXCEPT !.node[n].callbacks = add_callbacks(@, callbacks)]
             s3 == IF update_metrics /\ s.metrics.registered
                   THEN [s2 EXCEPT !.metrics.hits = @ + 1] ELSE s2
         IN  [s3 EXCEPT !.ret = s3.node[n].value]
    ELSE LET s1 == IF update_metrics /\ s.metrics.registered
                   THEN [s EXCEPT !.metrics.misses = @ + 1] ELSE s
         IN  [s1 EXCEPT !.ret = default]

\* mutant: a hit that does not keep the callbacks passed
cache_get_without_callbacks(s, key, default, callbacks, update_metrics) ==
    IF key \in DOMAIN s.cache
    THEN LET n == s.cache[key]
             s1 == move_node_to_front(s, n)
             s3 == IF update_metrics /\ s.metrics.registered
                   THEN [s1 EXCEPT !.metrics.hits = @ + 1] ELSE s1
         IN  [s3 EXCEPT !.ret = s3.node[n].value]
    ELSE LET s1 == IF update_metrics /\ s.metrics.registered
                   THEN [s EXCEPT !.metrics.misses = @ + 1] ELSE s
         IN  [s1 EXCEPT !.ret = default]

\* mutant: hits and misses are counted whatever update_metrics says
cache_get_counting_always(s, key, default, callbacks, update_metrics) ==
    IF key \in DOMAIN s.cache
    THEN LET n == s.cache[key]
             s1 == move_node_to_front(s, n)
             s2 == [s1 EXCEPT !.node[n].callbacks = add_callbacks(@, callbacks)]
             s3 == IF s.metrics.registered
                   THEN [s2 EXCEPT !.metrics.hits = @ + 1] ELSE s2
         IN  [s3 EXCEPT !.ret = s3.node[n].value]
    ELSE LET s1 == IF s.metrics.registered
                   THEN [s EXCEPT !.metrics.misses = @ + 1] ELSE s
         IN  [s1 EXCEPT !.ret = default]

cache_get(s, key, default, callbacks, update_metrics) ==
    IF key \in DOMAIN s.cache
    THEN LET n == s.cache[key]
             s1 == move_node_to_front(s, n)
             s2 == [s1 EXCEPT !.node[n].callbacks = add_callbacks(@, callbacks)]
             s3 == IF update_metrics /\ s.metrics.registered
                   THEN [s2 EXCEPT !.metrics.hits = @ + 1] ELSE s2
         IN  [s3 EXCEPT !.ret = s3.node[n].value]
    ELSE LET s1 == IF update_metrics /\ s.metrics.registered
                   THEN [s EXCEPT !.metrics.misses = @ + 1] ELSE s
         IN  [s1 EXCEPT !.ret = default]

\* mutant: replacing a value without adjusting the cached cost
cache_set_without_cost_delta(s, key, value, callbacks, order) ==
    IF key \in DOMAIN s.cache
    THEN LET n == s.cache[key]
             s1 == IF value # s.node[n].value THEN run_and_clear_callbacks(s, n) ELSE s
             s3 == [s1 EXCEPT !.node[n].callbacks = add_callbacks(@, callbacks)]
             s4 == move_node_to_front(s3, n)
             s5 == [s4 EXCEPT !.node[n].value = value]
         IN  evict(s5)
    ELSE evict(add_node(s, key, value, order))

\* `order` is the iteration order of set(callbacks) when the key is new
\* mutant: set on a resident key leaves the entry where it is in the list
cache_set_without_move(s, key, value, callbacks, order) ==
    IF key \in DOMAIN s.cache
    THEN LET n == s.cache[key]
             s1 == IF value # s.node[n].value THEN run_and_clear_callbacks(s, n) ELSE s
             s2 == IF size_callback # "None"
                   THEN [s1 EXCEPT !.cached_cache_len =
                            (@ - call_size_callback(s1.node[n].value))
                                + call_size_callback(value)]
                   ELSE s1
             s3 == [s2 EXCEPT !.node[n].callbacks = add_callbacks(@, callbacks)]
             s5 == [s3 EXCEPT !.node[n].value = value]
         IN  IF s1.raised THEN s1 ELSE evict(s5)
    ELSE evict(add_node(s, key, value, order))

cache_set(s, key, value, callbacks, order) ==
    IF key \in DOMAIN s.cache
    THEN LET n == s.cache[key]
             s1 == IF value # s.node[n].value THEN run_and_clear_callbacks(s, n) ELSE s
             s2 == IF size_callback # "None"
                   THEN [s1 EXCEPT !.cached_cache_len =
                            (@ - call_size_callback(s1.node[n].value))
                                + call_size_callback(value)]
                   ELSE s1
             s3 == [s2 EXCEPT !.node[n].callbacks = add_callbacks(@, callbacks)]
             s4 == move_node_to_front(s3, n)
             s5 == [s4 EXCEPT !.node[n].value = value]
         IN  IF s1.raised THEN s1 ELSE evict(s5)
    ELSE evict(add_node(s, key, value, order))

\* mutant: setdefault that refreshes the position of an existing key
cache_set_default_moving(s, key, value) ==
    IF key \in DOMAIN s.cache
    THEN [move_node_to_front(s, s.cache[key]) EXCEPT !.ret = s.node[s.cache[key]].value]
    ELSE [evict(add_node(s, key, value, <<>>)) EXCEPT !.ret = value]

\* mutant: setdefault that inserts and does not evict
cache_set_default_without_evict(s, key, value) ==
    IF key \in DOMAIN s.cache
    THEN [s EXCEPT !.ret = s.node[s.cache[key]].value]
    ELSE [add_node(s, key, value, <<>>) EXCEPT !.ret = value]

\* `return value`, unless an exception has ended the operation
return(s, value) == IF s.raised THEN s ELSE [s EXCEPT !.ret = value]

cache_set_default(s, key, value) ==
    IF key \in DOMAIN s.cache
    THEN [s EXCEPT !.ret = s.node[s.cache[key]].value]
    ELSE return(evict(add_node(s, key, value, <<>>)), value)

\* mutant: pop that unlinks the node and leaves its key in the index
cache_pop_keeping_key(s, key, default) ==
    IF key \in DOMAIN s.cache
    THEN LET n == s.cache[key]
             s1 == delete_node(s, n)
         IN  [s1 EXCEPT !.ret = s1.node[n].value]
    ELSE [s EXCEPT !.ret = default]

cache_pop(s, key, default) ==
    IF key \in DOMAIN s.cache
    THEN LET n == s.cache[key]
             s1 == delete_node(s, n)
             s2 == dict_pop(s1, s1.node[n].key)
         IN  IF s1.raised THEN s1 ELSE [s2 EXCEPT !.ret = s2.node[n].value]
    ELSE [s EXCEPT !.ret = default]

\* the tuple key starts with prefix
StartsWith(key, prefix) ==
    Len(prefix) <= Len(key) /\ SubSeq(key, 1, Len(prefix)) = prefix

\* TreeCache.pop(prefix, None): the subtree under the prefix, here the part of
\* the index whose keys start with it (empty when there is none)
TreeCache_pop(index, prefix) ==
    [k \in {x \in DOMAIN index : StartsWith(x, prefix)} |-> index[k]]

\* cache.pop(key, None) of cache_del_multi: what the index gives up.  A dict
\* gives up the node stored under exactly that key.
index_pop(s, key) ==
    IF cache_type = "TreeCache" THEN TreeCache_pop(s.cache, key)
    ELSE [k \in {key} \cap DOMAIN s.cache |-> s.cache[k]]

\* iterate_tree_cache_entry: the leaf nodes of what the index popped
iterate_tree_cache_entry(popped) == Range(popped)

\* the orders in which a collection of nodes may be iterated
Orders(nodes) ==
    {o \in [1..Cardinality(nodes) -> nodes] : Range(o) = nodes}

\* mutant: only the first leaf of the popped subtree is deleted
delete_nodes_first_only(s, leaves) ==
    IF leaves = <<>> THEN s ELSE delete_node(s, Head(leaves))

RECURSIVE delete_nodes(_, _)
\* the loop of cache_del_multi: delete_node on each leaf, in iteration order
delete_nodes(s, leaves) ==
    IF leaves = <<>> \/ s.raised THEN s
    ELSE delete_nodes(delete_node(s, Head(leaves)), Tail(leaves))

\* mutant: without the test for None, delete_node is called on None and raises
cache_del_multi_without_none_test(s, key, order) ==
    LET popped == index_pop(s, key)
        s1 == [s EXCEPT !.cache = [k \in (DOMAIN s.cache) \ (DOMAIN popped) |-> s.cache[k]]]
    IN  IF popped = <<>> THEN [s EXCEPT !.raised = TRUE] ELSE delete_nodes(s1, order)

\* `order` is the iteration order of iterate_tree_cache_entry(popped)
cache_del_multi(s, key, order) ==
    LET popped == index_pop(s, key)
        s1 == [s EXCEPT !.cache = [k \in (DOMAIN s.cache) \ (DOMAIN popped) |-> s.cache[k]]]
    IN  IF popped = <<>> THEN s ELSE delete_nodes(s1, order)

RECURSIVE clear_callbacks(_, _)
\* the loop of cache_clear over cache.values()
clear_callbacks(s, nodes) ==
    IF nodes = <<>> \/ s.raised THEN s
    ELSE clear_callbacks(run_and_clear_callbacks(s, Head(nodes)), Tail(nodes))

\* metrics.clear_memory_usage(), when memory is tracked
clear_memory_usage(s) ==
    IF TRACK_MEMORY_USAGE /\ s.metrics.registered
    THEN [s EXCEPT !.metrics.memory_usage = 0] ELSE s

\* mutant: clear that leaves the cached cost as it was
cache_clear_keeping_cost(s, order) ==
    LET n1 == [s.node EXCEPT ![list_root].next_node = list_root]
        n2 == [n1 EXCEPT ![list_root].prev_node = list_root]
        s1 == clear_callbacks([s EXCEPT !.node = n2], order)
        s2 == [s1 EXCEPT !.cache = <<>>]
    IN  IF s1.raised THEN s1 ELSE clear_memory_usage(s2)

\* `order` is the iteration order of cache.values()
cache_clear(s, order) ==
    LET n1 == [s.node EXCEPT ![list_root].next_node = list_root]
        n2 == [n1 EXCEPT ![list_root].prev_node = list_root]
        s1 == clear_callbacks([s EXCEPT !.node = n2], order)
        s2 == [s1 EXCEPT !.cache = <<>>]
        s3 == IF size_callback # "None" THEN [s2 EXCEPT !.cached_cache_len = 0] ELSE s2
    IN  IF s1.raised THEN s1 ELSE clear_memory_usage(s3)

\* mutant: a membership test that counts as a use of the entry
cache_contains_moving(s, key) ==
    IF key \in DOMAIN s.cache
    THEN [move_node_to_front(s, s.cache[key]) EXCEPT !.ret = TRUE]
    ELSE [s EXCEPT !.ret = FALSE]

cache_contains(s, key) == [s EXCEPT !.ret = (key \in DOMAIN s.cache)]

\* self.len = synchronized(cache_len)
len(s) == [s EXCEPT !.ret = cache_len(s)]

\* int(max_size * factor), the factor given in halves
scaled(size, halves) ==
    IF size * halves >= 0 THEN (size * halves) \div 2 ELSE -((-(size * halves)) \div 2)

\* mutant: the factor is applied whether or not the cache takes part in scaling
set_cache_factor_of_any_cache(s, factor) ==
    LET new_size == scaled(original_max_size, factor)
    IN  IF new_size # s.max_size
        THEN return(evict([s EXCEPT !.max_size = new_size]), TRUE)
        ELSE [s EXCEPT !.ret = FALSE]

\* mutant: the new size is stored and no entry is evicted
set_cache_factor_without_resize(s, factor) ==
    IF ~apply_cache_factor_from_config THEN [s EXCEPT !.ret = FALSE]
    ELSE LET new_size == scaled(original_max_size, factor)
         IN  IF new_size # s.max_size
             THEN [s EXCEPT !.max_size = new_size, !.ret = TRUE]
             ELSE [s EXCEPT !.ret = FALSE]

set_cache_factor(s, factor) ==
    IF ~apply_cache_factor_from_config THEN [s EXCEPT !.ret = FALSE]
    ELSE LET new_size == scaled(original_max_size, factor)
         IN  IF new_size # s.max_size
             THEN return(evict([s EXCEPT !.max_size = new_size]), TRUE)
             ELSE [s EXCEPT !.ret = FALSE]

\* ------------------------------------------------------- object lifetime

RECURSIVE Referenced(_, _)
\* the nodes reachable from `from` along the links
Referenced(n, from) ==
    LET more == from \cup {n[x].prev_node : x \in from} \cup {n[x].next_node : x \in from}
    IN  IF more = from THEN from ELSE Referenced(n, more)

\* a node no longer referenced by the index, the list or a thread's local
\* variable is freed
Live(s, todelete) ==
    LET live == Referenced(s.node, {list_root, todelete} \cup Range(s.cache))
    IN  [x \in live |-> s.node[x]]

Reclaim(s) == Live(s, frame.todelete)

\* ----------------------------------------------------------------- actions

\* an operation returns: the instance holds state s, the call o is recorded
\* the operation returns (or raises); one that never returns takes no step
Return(s, o) ==
    /\ ~s.hung
    /\ op' = o
    /\ ret' = s.ret
    /\ metrics' = s.metrics
    /\ fired' = s.fired
    /\ max_size' = s.max_size
    /\ cached_cache_len' = s.cached_cache_len
    /\ raised' = s.raised
    /\ cache' = s.cache
    /\ node' = Reclaim(s)
    /\ UNCHANGED <<size_callback, apply_cache_factor_from_config, original_max_size,
                   cache_type, TRACK_MEMORY_USAGE, call>>

Call(name, key, value) == [name |-> name, key |-> key, value |-> value]

\* the orders in which set(callbacks) may be iterated
SetOrders(callbacks) ==
    {o \in [1..Cardinality(Range(callbacks)) -> Range(callbacks)] : Range(o) = Range(callbacks)}

Get(key, default, callbacks, update_metrics) ==
    Return(cache_get(Self, key, default, callbacks, update_metrics),
           Call("get", key, None))

Set(key, value, callbacks) ==
    \E order \in SetOrders(callbacks) :
        Return(cache_set(Self, key, value, callbacks, order), Call("set", key, value))

SetDefault(key, value) ==
    Return(cache_set_default(Self, key, value), Call("setdefault", key, value))

Pop(key, default) ==
    Return(cache_pop(Self, key, default), Call("pop", key, None))

DelMulti(key) ==
    \E order \in Orders(iterate_tree_cache_entry(index_pop(Self, key))) :
        Return(cache_del_multi(Self, key, order), Call("del_multi", key, None))

Clear ==
    \E order \in Orders(Range(cache)) :
        Return(cache_clear(Self, order), Call("clear", None, None))

Contains(key) == Return(cache_contains(Self, key), Call("contains", key, None))

LenCall == Return(len(Self), Call("len", None, None))

SetCacheFactor(factor) ==
    Return(set_cache_factor(Self, factor), Call("set_cache_factor", None, <<factor>>))

\* LruCache.__init__: an empty cache; default_factor_size comes from the config
LruCache(type, sizes, track) ==
    /\ cache_type = type
    /\ TRACK_MEMORY_USAGE = track
    /\ raised = FALSE
    /\ lock = "free"
    /\ pc = [t \in Threads |-> "idle"]
    /\ frame = NoFrame
    /\ size_callback \in {"None", "len"}
    /\ apply_cache_factor_from_config \in BOOLEAN
    /\ original_max_size \in sizes
    /\ \E default_factor_size \in FactorHalves :
          max_size = IF apply_cache_factor_from_config
                     THEN scaled(original_max_size, default_factor_size)
                     ELSE original_max_size
    /\ \E cache_name \in {"None", "name"} :
          metrics = NoCalls(cache_name # "None")
    /\ cache = <<>>
    /\ node = [x \in {list_root} |-> NewNode(list_root, list_root, None, None, <<>>)]
    /\ cached_cache_len = 0
    /\ fired = NoneFired
    /\ ret = None
    /\ op = Call("init", None, None)
    /\ touched = <<>>
    /\ call = NoCall

\* a dict-backed cache, memory not tracked (the defaults)
Init == LruCache("dict", 1..MaxNominal, FALSE)

Next ==
    \/ \E key \in Keys, default \in Defaults, callbacks \in OneCallbackArgs,
          update_metrics \in BOOLEAN :
          Get(key, default, callbacks, update_metrics) /\ UNCHANGED <<touched, threads>>
    \/ \E key \in Keys, value \in Values, callbacks \in OneCallbackArgs :
          Set(key, value, callbacks) /\ UNCHANGED <<touched, threads>>
    \/ \E key \in Keys, value \in Values : SetDefault(key, value) /\ UNCHANGED <<touched, threads>>
    \/ \E key \in Keys, default \in Defaults : Pop(key, default) /\ UNCHANGED <<touched, threads>>
    \/ \E key \in DelKeys : DelMulti(key) /\ UNCHANGED <<touched, threads>>
    \/ Clear /\ UNCHANGED <<touched, threads>>
    \/ \E key \in Keys : Contains(key) /\ UNCHANGED <<touched, threads>>
    \/ LenCall /\ UNCHANGED <<touched, threads>>
    \/ \E factor \in FactorHalves : SetCacheFactor(factor) /\ UNCHANGED <<touched, threads>>

Spec == Init /\ [][Next]_vars

\* ----------------------------------------------------- SpecLru: set and get

Touch(key) == <<key>> \o SelectSeq(touched, LAMBDA k : k # key)

InitLru == Init /\ size_callback = "None"

NextLru ==
    \/ \E key \in Keys, value \in Values, callbacks \in OneCallbackArgs :
          Set(key, value, callbacks) /\ touched' = Touch(key) /\ UNCHANGED threads
    \/ \E key \in Keys, default \in Defaults, callbacks \in OneCallbackArgs,
          update_metrics \in BOOLEAN :
          /\ Get(key, default, callbacks, update_metrics)
          /\ touched' = IF key \in DOMAIN cache THEN Touch(key) ELSE touched
          /\ UNCHANGED threads

SpecLru == InitLru /\ [][NextLru]_vars

\* ------------------------------------------------- the list, as a sequence

RECURSIVE Walk(_, _, _)
\* the nodes met from cur along the links `link`, up to the root (or `fuel` nodes)
Walk(link, cur, fuel) ==
    IF cur = list_root \/ fuel = 0 \/ cur \notin DOMAIN node THEN <<>>
    ELSE <<cur>> \o Walk(link, node[cur][link], fuel - 1)

\* the nodes of the recency list from the front, and from the back
ForwardList == Walk("next_node", node[list_root].next_node, Cardinality(DOMAIN node))
BackwardList == Walk("prev_node", node[list_root].prev_node, Cardinality(DOMAIN node))

Reverse(seq) == [i \in 1..Len(seq) |-> seq[Len(seq) + 1 - i]]

\* the entries of the recency list, most recent first
Entries ==
    [i \in 1..Len(ForwardList) |->
        [key |-> node[ForwardList[i]].key, value |-> node[ForwardList[i]].value,
         callbacks |-> node[ForwardList[i]].callbacks]]

ListKeys == [i \in 1..Len(Entries) |-> Entries[i].key]

\* the cost of a value: cost_fn when configured, else 1
Cost(value) == IF size_callback # "None" THEN Len(value) ELSE 1

RECURSIVE TotalCost(_)
TotalCost(entries) ==
    IF entries = <<>> THEN 0 ELSE Cost(Head(entries).value) + TotalCost(Tail(entries))

Min(a, b) == IF a <= b THEN a ELSE b

\* ------------------------------------------------------------------ claims

\* C1: with uniform cost and capacity N >= 1, after any sequence of set and get
\* calls len() <= N and the recency list holds exactly the min(N, number of
\* distinct keys set) most recently touched keys, in order of last touch, most
\* recent at the front; the index holds the same keys.
C1_LruOrder ==
    max_size >= 1 =>
        /\ len(Self).ret <= max_size
        /\ ListKeys = SubSeq(touched, 1, Min(max_size, Len(touched)))
        /\ DOMAIN cache = Range(ListKeys)

\* C1 witness: a get hit has reordered a full cache from which a key was evicted
C1_Witness ==
    /\ max_size = 2
    /\ Len(touched) = 3
    /\ op.name = "get"
    /\ metrics.hits = 1
    /\ ListKeys = SubSeq(touched, 1, 2)

\* C2: a key is in the index iff its entry is met exactly once on the walk of
\* the circular list from the root, and the next links and the prev links
\* describe the same cycle.
C2_IndexMatchesList ==
    /\ Len(ForwardList) < Cardinality(DOMAIN node)
    /\ \A k \in Keys :
          IF k \in DOMAIN cache
          THEN /\ Cardinality({i \in 1..Len(ForwardList) : ForwardList[i] = cache[k]}) = 1
               /\ node[cache[k]].key = k
          ELSE \A i \in 1..Len(ForwardList) : node[ForwardList[i]].key # k
    /\ BackwardList = Reverse(ForwardList)
    /\ \A n \in DOMAIN node :
          /\ node[n].next_node \in DOMAIN node
          /\ node[node[n].next_node].prev_node = n

\* C2 witness: an eviction has run and two entries are linked
C2_Witness ==
    /\ op.name = "set"
    /\ metrics.evictions > 0
    /\ Len(ForwardList) = 2

\* C3: len() is the sum of the costs of the resident entries when a cost
\* function is configured, and their number when none is.
C3_LenIsTotalCost ==
    /\ size_callback # "None" => cached_cache_len = TotalCost(Entries)
    /\ len(Self).ret = TotalCost(Entries)
    /\ op.name = "len" => ret = TotalCost(Entries)

\* C3 witness: len() returned a cost that is not the number of entries
C3_Witness ==
    /\ op.name = "len"
    /\ size_callback = "len"
    /\ ret = 2
    /\ Len(Entries) = 1

\* the mutating operations
Mutating == {"set", "setdefault", "pop", "del_multi", "clear", "set_cache_factor"}

\* len(), were it called now
CurrentCost == len(Self).ret

\* C4: after any mutating operation returns, either the current cost is at most
\* the effective capacity, or the cache holds exactly one entry whose own cost
\* exceeds the effective capacity.
C4_CostWithinCapacity ==
    op.name \in Mutating =>
        \/ CurrentCost <= max_size
        \/ Len(Entries) = 1 /\ Cost(Entries[1].value) > max_size

\* C4 witness: a set has evicted two entries to come back under the capacity
C4_Witness ==
    /\ op.name = "set"
    /\ metrics.evictions >= 2
    /\ Len(Entries) = 1
    /\ CurrentCost <= max_size

\* a set of a value whose cost alone exceeds the capacity has just returned
AfterOversizedSet ==
    /\ op.name = "set"
    /\ size_callback # "None"
    /\ Cost(op.value) > max_size

\* C5 as stated: set(k, v) with cost_fn(v) above the effective capacity leaves k
\* resident as the only entry: contains(k) is true, get(k) returns v and
\* len() = cost_fn(v).  (Stated here for the capacities >= 1 alone.)
C5_OversizedEntryStays ==
    (AfterOversizedSet /\ max_size >= 1) =>
        /\ DOMAIN cache = {op.key}
        /\ ListKeys = <<op.key>>
        /\ cache_contains(Self, op.key).ret
        /\ \A d \in Defaults : cache_get(Self, op.key, d, <<>>, TRUE).ret = op.value
        /\ CurrentCost = Cost(op.value)

\* C5 amended: set(k, v) with cost_fn(v) above the effective capacity evicts
\* every entry, k included: afterwards the cache is empty, contains(k) is
\* false, get(k) returns the default and len() = 0.
C5_OversizedEntryEvicted ==
    AfterOversizedSet =>
        /\ DOMAIN cache = {}
        /\ Entries = <<>>
        /\ ~cache_contains(Self, op.key).ret
        /\ \A d \in Defaults : cache_get(Self, op.key, d, <<>>, TRUE).ret = d
        /\ CurrentCost = 0
        /\ metrics.registered => metrics.evictions >= Cost(op.value)

\* C5 witness: a set of cost 2 into a cache of capacity 1 that held an entry of
\* cost 1 has evicted both
C5_Witness ==
    /\ AfterOversizedSet
    /\ max_size = 1
    /\ metrics.evictions = 3
    /\ cache = <<>>

\* the counters a get that hits leaves behind
HitCounted(m) ==
    /\ m.hits = IF m.registered THEN 1 ELSE 0
    /\ m.misses = 0

\* C6 as stated: in every configuration, get(k) right after set(k, v) returns v
\* and counts one hit and no miss.
C6_GetAfterSet ==
    [][(op.name = "set" /\ op'.name = "get") =>
          \A d \in Defaults, cbs \in CallbackArgs :
              Get(op.key, d, cbs, TRUE) => (ret' = op.value /\ HitCounted(metrics'))]_vars

\* C6 amended: when the cost of v (1 without a cost function) does not exceed
\* the effective capacity, get(k) right after set(k, v) returns v and counts one
\* hit (metrics registered) and no miss.
C6_GetAfterSetThatFits ==
    [][(op.name = "set" /\ Cost(op.value) <= max_size /\ op'.name = "get") =>
          \A d \in Defaults, cbs \in CallbackArgs :
              Get(op.key, d, cbs, TRUE) => (ret' = op.value /\ HitCounted(metrics'))]_vars

\* C6 witness: a set that fits has returned after evicting, get is next
C6_Witness ==
    /\ op.name = "set"
    /\ Cost(op.value) <= max_size
    /\ metrics.evictions = 1
    /\ op.key \in DOMAIN cache
    /\ node[cache[op.key]].value = op.value

\* C7: get on an absent key returns the caller's default, counts one miss (when
\* metrics are registered and update_metrics is true) and changes nothing else:
\* no entry is created, no callback attached or fired, index, list and cost
\* are unchanged.
C7_GetMiss ==
    [][(op'.name = "get" /\ op'.key \notin DOMAIN cache) =>
          \A d \in Defaults, um \in BOOLEAN :
              (\E cbs \in CallbackArgs : Get(op'.key, d, cbs, um))
              => /\ ret' = d
                 /\ metrics'.misses = (IF um /\ metrics.registered THEN 1 ELSE 0)
                 /\ metrics'.hits = 0
                 /\ metrics'.evictions = 0
                 /\ fired' = NoneFired
                 /\ UNCHANGED <<cache, node, cached_cache_len, max_size>>
                 /\ Entries' = Entries]_vars

\* C7 witness: a get with a default missed while another key was resident
C7_Witness ==
    /\ op.name = "get"
    /\ op.key \notin DOMAIN cache
    /\ ret \in Defaults
    /\ metrics.misses = 1
    /\ Len(Entries) >= 1

\* ------------------------------------- SpecCallbacks: callers with two callbacks

InitCallbacks ==
    Init /\ ~apply_cache_factor_from_config /\ metrics.registered

\* the keys these callers use
CallbackKeys == {<<1, 1>>, <<1, 2>>}

NextCallbacks ==
    \/ \E key \in CallbackKeys, default \in Defaults, callbacks \in CallbackArgs :
          Get(key, default, callbacks, TRUE) /\ UNCHANGED <<touched, threads>>
    \/ \E key \in CallbackKeys, value \in Values, callbacks \in CallbackArgs :
          Set(key, value, callbacks) /\ UNCHANGED <<touched, threads>>
    \/ \E key \in CallbackKeys, default \in Defaults :
          Pop(key, default) /\ UNCHANGED <<touched, threads>>
    \/ Clear /\ UNCHANGED <<touched, threads>>

SpecCallbacks == InitCallbacks /\ [][NextCallbacks]_vars

\* the callbacks stored for a resident key
StoredCallbacks(k) == node[cache[k]].callbacks

\* C8 as stated: set(k, v2) on a resident key whose value differs from v2 fires
\* every callback registered against k exactly once before it returns; set with
\* an equal value fires no callback and the registered callbacks stay attached.
C8_SetFiresOnce ==
    [][(op'.name = "set" /\ op'.key \in DOMAIN cache) =>
          \A k \in {op'.key}, v \in {op'.value}, cbs \in CallbackArgs :
              Set(k, v, cbs)
              => IF v # node[cache[k]].value
                 THEN \A cb \in Range(StoredCallbacks(k)) : fired'[<<k, cb>>] = 1
                 ELSE /\ fired' = NoneFired
                      /\ k \in DOMAIN cache'
                      /\ StoredCallbacks(k)' = add_callbacks(StoredCallbacks(k), cbs)]_vars

\* the set passes callback cb again and the entry is evicted by the same set
RegisteredAgainAndEvicted(v, cbs, cb) == cb \in Range(cbs) /\ Cost(v) > max_size

\* C8 amended: ... fires every callback registered against k exactly once before
\* it returns, or twice when the same set passes that callback again with a
\* value whose cost exceeds the capacity (the entry is then evicted by that set,
\* which fires the callbacks it has just attached); set with an equal value
\* fires no callback and the registered callbacks stay attached.
C8_SetFiresOnceOrAgain ==
    [][(op'.name = "set" /\ op'.key \in DOMAIN cache) =>
          \A k \in {op'.key}, v \in {op'.value}, cbs \in CallbackArgs :
              Set(k, v, cbs)
              => IF v # node[cache[k]].value
                 THEN \A cb \in Range(StoredCallbacks(k)) :
                        fired'[<<k, cb>>] =
                            IF RegisteredAgainAndEvicted(v, cbs, cb) THEN 2 ELSE 1
                 ELSE /\ fired' = NoneFired
                      /\ k \in DOMAIN cache'
                      /\ StoredCallbacks(k)' = add_callbacks(StoredCallbacks(k), cbs)]_vars

\* C8 witness: a set has replaced the value of a key that held two callbacks,
\* firing each once, and the key is still resident
C8_Witness ==
    /\ op.name = "set"
    /\ op.key \in DOMAIN cache
    /\ \A cb \in Callbacks : fired[<<op.key, cb>>] = 1
    /\ metrics.evictions = 0

RECURSIVE Evicted(_, _)
\* what the eviction loop leaves of a list of entries: the tail is dropped
\* until the total cost is within the capacity
Evicted(entries, capacity) ==
    IF entries # <<>> /\ TotalCost(entries) > capacity
    THEN Evicted(SubSeq(entries, 1, Len(entries) - 1), capacity)
    ELSE entries

\* C9: setdefault(k, v) on a resident key returns the stored value and leaves
\* the whole cache state unchanged (k is not moved to the front); on an absent
\* key it inserts (k, v) at the front with no callbacks, evicts and returns v.
C9_SetDefault ==
    [][op'.name = "setdefault" =>
          \A k \in {op'.key}, v \in {op'.value} :
              SetDefault(k, v)
              => IF k \in DOMAIN cache
                 THEN /\ ret' = node[cache[k]].value
                      /\ UNCHANGED <<cache, node, cached_cache_len, max_size>>
                      /\ Entries' = Entries
                      /\ fired' = NoneFired
                      /\ metrics' = NoCalls(metrics.registered)
                 ELSE /\ ret' = v
                      /\ Entries' = Evicted(<<[key |-> k, value |-> v, callbacks |-> <<>>]>>
                                                \o Entries, max_size)
                      /\ DOMAIN cache' = Range(ListKeys')
                      /\ Cost(v) <= max_size => Entries'[1].key = k]_vars

\* C9 witness: setdefault returned the stored value of a key that is not at the
\* front, and the key is still behind another one
C9_Witness ==
    /\ op.name = "setdefault"
    /\ ret # op.value
    /\ Len(Entries) = 2
    /\ Entries[2].key = op.key

\* C10: pop(k, default) on a resident key removes k from the index and the
\* list, subtracts its cost, fires each of its callbacks once and returns the
\* stored value, the other entries keeping their order; on an absent key it
\* returns default and leaves the cache state unchanged.
C10_Pop ==
    [][op'.name = "pop" =>
          \A k \in {op'.key}, d \in Defaults :
              Pop(k, d)
              => IF k \in DOMAIN cache
                 THEN /\ ret' = node[cache[k]].value
                      /\ DOMAIN cache' = (DOMAIN cache) \ {k}
                      /\ Entries' = SelectSeq(Entries, LAMBDA e : e.key # k)
                      /\ CurrentCost' = CurrentCost - Cost(node[cache[k]].value)
                      /\ fired' = [e \in DOMAIN NoneFired |->
                                     IF e[1] = k /\ e[2] \in Range(StoredCallbacks(k))
                                     THEN 1 ELSE 0]
                 ELSE /\ ret' = d
                      /\ UNCHANGED <<cache, node, cached_cache_len, max_size>>
                      /\ Entries' = Entries
                      /\ fired' = NoneFired]_vars

\* C10 witness: pop returned the value of a key with two callbacks, fired both
\* once, and left another entry in the list
C10_Witness ==
    /\ op.name = "pop"
    /\ ret \in Values
    /\ op.key \notin DOMAIN cache
    /\ \A cb \in Callbacks : fired[<<op.key, cb>>] = 1
    /\ Len(Entries) = 1

\* --------------------------------------- SpecTree: a cache backed by a TreeCache

\* a hierarchical cache of key depth 2 with room for every key
InitTree == LruCache("TreeCache", {Cardinality(Keys)}, FALSE)

NextTree ==
    \/ \E key \in Keys, value \in Values, callbacks \in OneCallbackArgs :
          Set(key, value, callbacks) /\ UNCHANGED <<touched, threads>>
    \/ \E key \in Keys, default \in Defaults, callbacks \in OneCallbackArgs :
          Get(key, default, callbacks, TRUE) /\ UNCHANGED <<touched, threads>>
    \/ \E key \in DelKeys : DelMulti(key) /\ UNCHANGED <<touched, threads>>

SpecTree == InitTree /\ [][NextTree]_vars

\* the resident keys that start with prefix p
Under(p) == {k \in DOMAIN cache : StartsWith(k, p)}

\* C11: in a hierarchical cache, del_multi / invalidate(p) with a prefix p removes
\* exactly the resident entries whose key starts with p from the index and the
\* list, fires each callback of each removed entry once, lowers the current
\* cost by their total cost and leaves the other entries resident with their
\* value and relative order; a get on a removed key then returns the default.
C11_PrefixInvalidation ==
    [][(op'.name = "del_multi" /\ cache_type = "TreeCache") =>
          \A p \in {op'.key} :
              DelMulti(p)
              => /\ DOMAIN cache' = (DOMAIN cache) \ Under(p)
                 /\ Entries' = SelectSeq(Entries, LAMBDA e : ~StartsWith(e.key, p))
                 /\ \A k \in DOMAIN cache' : node'[cache'[k]].value = node[cache[k]].value
                 /\ fired' = [e \in DOMAIN NoneFired |->
                                IF e[1] \in Under(p) /\ e[2] \in Range(StoredCallbacks(e[1]))
                                THEN 1 ELSE 0]
                 /\ CurrentCost' = CurrentCost
                        - TotalCost(SelectSeq(Entries, LAMBDA e : StartsWith(e.key, p)))
                 /\ \A k \in Under(p), d \in Defaults :
                        cache_get(Self, k, d, <<>>, TRUE).ret' = d
                 /\ ~raised']_vars

\* C11 witness: invalidate(<<1>>) has removed both entries under the prefix,
\* fired the callback of each, and left the entry under the other prefix
C11_Witness ==
    /\ cache_type = "TreeCache"
    /\ op.name = "del_multi"
    /\ op.key = <<1>>
    /\ fired[<<<<1, 1>>, "cb1">>] = 1
    /\ fired[<<<<1, 2>>, "cb1">>] = 1
    /\ ListKeys = <<<<2, 1>>>>

\* the resident keys that del_multi(p) matches: the key itself in a flat cache,
\* the keys under the prefix in a hierarchical one
Matched(p) == IF cache_type = "TreeCache" THEN Under(p) ELSE {p} \cap DOMAIN cache

\* the counters when an operation has changed none of them
CountersUnchanged == [NoCalls(metrics.registered) EXCEPT !.memory_usage = metrics.memory_usage]

\* C12: del_multi / invalidate on a key or prefix that matches no resident entry
\* is a no-op: it raises nothing, fires no callback and leaves index, list,
\* current cost and all counters unchanged.
C12_DelMultiMiss ==
    [][(op'.name = "del_multi" /\ Matched(op'.key) = {}) =>
          \A p \in {op'.key} :
              DelMulti(p)
              => /\ ~raised'
                 /\ fired' = NoneFired
                 /\ UNCHANGED <<cache, node, cached_cache_len, max_size>>
                 /\ Entries' = Entries
                 /\ CurrentCost' = CurrentCost
                 /\ metrics' = CountersUnchanged]_vars

\* C12 witness: del_multi of a prefix has returned from a flat cache that holds
\* two entries, one of them under that prefix with a callback still attached
C12_Witness ==
    /\ op.name = "del_multi"
    /\ op.key = <<1>>
    /\ ~raised
    /\ Len(Entries) = 2
    /\ <<1, 1>> \in DOMAIN cache
    /\ StoredCallbacks(<<1, 1>>) = <<"cb1">>

\* ------------------------------------- SpecMemory: memory usage is tracked

InitMemory == LruCache("dict", 1..MaxNominal, TRUE)

NextMemory ==
    \/ \E key \in CallbackKeys, default \in Defaults, callbacks \in OneCallbackArgs :
          Get(key, default, callbacks, TRUE) /\ UNCHANGED <<touched, threads>>
    \/ \E key \in CallbackKeys, value \in Values, callbacks \in OneCallbackArgs :
          Set(key, value, callbacks) /\ UNCHANGED <<touched, threads>>
    \/ \E key \in CallbackKeys, value \in Values : SetDefault(key, value) /\ UNCHANGED <<touched, threads>>
    \/ \E key \in CallbackKeys, default \in Defaults : Pop(key, default) /\ UNCHANGED <<touched, threads>>
    \/ \E key \in CallbackKeys : DelMulti(key) /\ UNCHANGED <<touched, threads>>
    \/ Clear /\ UNCHANGED <<touched, threads>>
    \/ \E factor \in FactorHalves : SetCacheFactor(factor) /\ UNCHANGED <<touched, threads>>

SpecMemory == InitMemory /\ [][NextMemory]_vars

\* C13: clear() (callbacks not raising) fires the callbacks of every resident
\* entry exactly once and leaves the cache empty: the root is self-linked, the
\* index has no key, len() is 0 with or without a cost function and the memory
\* metric is reset when tracked; the effective capacity and the hit, miss and
\* eviction counters are unchanged.
C13_Clear ==
    [][op'.name = "clear" =>
          (Clear
           => /\ fired' = [e \in DOMAIN NoneFired |->
                             IF e[1] \in DOMAIN cache /\ e[2] \in Range(StoredCallbacks(e[1]))
                             THEN 1 ELSE 0]
              /\ ~raised'
              /\ DOMAIN cache' = {}
              /\ DOMAIN node' = {list_root}
              /\ node'[list_root].next_node = list_root
              /\ node'[list_root].prev_node = list_root
              /\ Entries' = <<>>
              /\ CurrentCost' = 0
              /\ cached_cache_len' = 0
              /\ metrics'.memory_usage = 0
              /\ max_size' = max_size
              /\ metrics'.hits = 0 /\ metrics'.misses = 0 /\ metrics'.evictions = 0)]_vars

\* C13 witness: clear has emptied a cache with a cost function and tracked
\* memory that held two entries, and fired the callback of each
C13_Witness ==
    /\ op.name = "clear"
    /\ TRACK_MEMORY_USAGE /\ metrics.registered
    /\ size_callback = "len"
    /\ \A k \in CallbackKeys : fired[<<k, "cb1">>] = 1
    /\ cache = <<>>
    /\ metrics.memory_usage = 0

\* every resident entry costs one unit
UniformCost == \A i \in 1..Len(Entries) : Cost(Entries[i].value) = 1

\* what an operation that evicted the entries behind the first `kept` has fired
FiredBehind(kept) ==
    [e \in DOMAIN NoneFired |->
        IF \E i \in (kept + 1)..Len(Entries) :
              Entries[i].key = e[1] /\ e[2] \in Range(Entries[i].callbacks)
        THEN 1 ELSE 0]

\* set_cache_factor has evicted the entries behind the first `kept`
EvictedBehind(kept) ==
    /\ Entries' = SubSeq(Entries, 1, kept)
    /\ DOMAIN cache' = Range(ListKeys')
    /\ fired' = FiredBehind(kept)
    /\ metrics'.evictions = IF metrics.registered THEN Len(Entries) - kept ELSE 0

\* set_cache_factor has returned false and changed nothing
NoChange ==
    /\ ret' = FALSE
    /\ UNCHANGED <<cache, node, cached_cache_len, max_size>>
    /\ fired' = NoneFired
    /\ metrics' = CountersUnchanged

C15_OptedOut ==
    /\ [](~apply_cache_factor_from_config => max_size = original_max_size)
    /\ [][(op'.name = "set_cache_factor" /\ ~apply_cache_factor_from_config) =>
             \A f \in {op'.value[1]} :
                 SetCacheFactor(f) => (NoChange /\ Entries' = Entries /\ ~raised')]_vars

\* C15 witness: set_cache_factor(0) has returned false on an opted-out cache
\* that still holds two entries, one with a callback
C15_Witness ==
    /\ op.name = "set_cache_factor"
    /\ op.value = <<0>>
    /\ ~apply_cache_factor_from_config
    /\ ret = FALSE
    /\ Len(Entries) = 2
    /\ max_size = original_max_size
    /\ \E i \in 1..2 : Entries[i].callbacks # <<>>

\* ------------------------------- SpecInsert: distinct keys inserted by set

\* set on keys that were never set before, and no other operation: `touched`
\* lists the keys inserted, the latest first
NextInsert ==
    \E key \in Keys \ Range(touched), value \in Values, callbacks \in OneCallbackArgs :
        Set(key, value, callbacks) /\ touched' = Touch(key) /\ UNCHANGED threads

SpecInsert == Init /\ [][NextInsert]_vars

\* the keys and values of a list of entries
KeysValues(entries) ==
    [i \in 1..Len(entries) |-> [key |-> entries[i].key, value |-> entries[i].value]]

\* the list once (k, v) is inserted at the front, before the eviction
Inserted(k, v) == <<[key |-> k, value |-> v]>> \o KeysValues(Entries)

\* at most N keys were inserted so far, each with a value of cost 1: all of
\* them are resident
InsertedAtUnitCost ==
    /\ Len(touched) <= max_size
    /\ Len(Entries) = Len(touched)
    /\ UniformCost

\* C16: with uniform cost and capacity N >= 1, inserting N+1 distinct keys by
\* set and nothing else evicts exactly the first-inserted key, leaves the other
\* N resident and adds exactly 1 to the eviction counter (the N-th and earlier
\* sets add nothing); in general each eviction removes the tail entry and adds
\* its cost to the eviction counter.
C16_EvictsFirstInserted ==
    [][op'.name = "set" =>
          \A k \in {op'.key}, v \in {op'.value} :
              (\E cbs \in OneCallbackArgs : Set(k, v, cbs) /\ touched' = Touch(k))
              => /\ (InsertedAtUnitCost /\ Cost(v) = 1 /\ max_size >= 1)
                    => /\ ListKeys' = SubSeq(touched', 1, Min(max_size, Len(touched')))
                       /\ DOMAIN cache' = Range(ListKeys')
                       /\ metrics'.evictions =
                            IF metrics.registered /\ Len(touched) = max_size THEN 1 ELSE 0
                       /\ Len(touched) = max_size =>
                            /\ touched[max_size] = ListKeys[Len(ListKeys)]
                            /\ touched[max_size] \notin DOMAIN cache'
                            /\ Cardinality(DOMAIN cache') = max_size
                 /\ KeysValues(Entries') = Evicted(Inserted(k, v), max_size)
                 /\ metrics'.evictions =
                        IF metrics.registered
                        THEN TotalCost(Inserted(k, v)) - TotalCost(Entries') ELSE 0]_vars

\* C16 witness: capacity 2, three keys inserted: the first one is gone, the
\* other two are resident and the last set counted one eviction
C16_Witness ==
    /\ size_callback = "None"
    /\ max_size = 2
    /\ Len(touched) = 3
    /\ op.name = "set"
    /\ metrics.evictions = 1
    /\ touched[3] \notin DOMAIN cache
    /\ ListKeys = SubSeq(touched, 1, 2)

\* ------------------------ SpecThreads: the operations called from several threads

\* The eight closures are wrapped by `synchronized`: a worker thread takes the
\* lock, runs the operation and releases the lock.  set_cache_factor is a plain
\* method: it runs evict without taking the lock, one statement group at a
\* time, and the other threads run between its steps.  (The body of a
\* synchronized operation is taken as one step.)

\* the key the threads contend for
ThreadKeys == {<<1, 1>>}

\* the instance as it is now, the counts of the running operations kept
Current == [Self EXCEPT !.fired = fired, !.metrics = metrics]

\* a step inside set_cache_factor stores state s and its local variables f
Store(s, f) ==
    /\ frame' = f
    /\ metrics' = s.metrics
    /\ fired' = s.fired
    /\ max_size' = s.max_size
    /\ cached_cache_len' = s.cached_cache_len
    /\ raised' = s.raised
    /\ cache' = s.cache
    /\ node' = Live(s, f.todelete)
    /\ UNCHANGED <<size_callback, apply_cache_factor_from_config, original_max_size,
                   cache_type, TRACK_MEMORY_USAGE, lock, touched, call>>

\* thread t goes to location l
Goto(t, l) == pc' = [pc EXCEPT ![t] = l]

\* An evicted node keeps its links, so the node a paused set_cache_factor
\* holds keeps every node evicted after it alive; the runs explored are those
\* in which at most MaxHeap nodes are alive when an operation starts.
MaxHeap == Cardinality(ThreadKeys) + 2

\* synchronized: `with lock:` is entered
Acquire(t) ==
    /\ pc[t] = "idle"
    /\ lock = "free"
    /\ Cardinality(DOMAIN node) <= MaxHeap
    /\ lock' = t
    /\ Goto(t, "locked")
    /\ UNCHANGED <<op, cache, node, cached_cache_len, max_size, metrics, size_callback,
                   apply_cache_factor_from_config, original_max_size, cache_type,
                   TRACK_MEMORY_USAGE, raised, fired, ret, frame, touched, call>>

\* synchronized: f has run under the lock and `with lock:` is left
Release(t) ==
    /\ pc[t] = "locked"
    /\ lock = t
    /\ lock' = "free"
    /\ Goto(t, "idle")
    /\ UNCHANGED <<frame, touched>>

\* set_cache_factor up to the call of self._on_resize (477-484); when the size
\* does not change it returns at once
ResizeCall(factor) ==
    /\ pc["resize"] = "idle"
    /\ IF ~apply_cache_factor_from_config \/ scaled(original_max_size, factor) = max_size
       THEN SetCacheFactor(factor) /\ UNCHANGED <<touched, threads>>
       ELSE /\ Goto("resize", "while")
            /\ Store([Self EXCEPT !.max_size = scaled(original_max_size, factor)],
                     [NoFrame EXCEPT !.factor = factor])
            /\ UNCHANGED <<op, ret>>

\* evict: `while cache_len() > self.max_size` (229); when the loop ends
\* set_cache_factor returns True (485)
ResizeWhile ==
    /\ pc["resize"] = "while"
    /\ IF cache_len(Current) > max_size
       THEN /\ Goto("resize", "todelete")
            /\ Store(Current, frame)
            /\ UNCHANGED <<op, ret>>
       ELSE /\ Goto("resize", "idle")
            /\ op' = Call("set_cache_factor", None, <<frame.factor>>)
            /\ ret' = TRUE
            /\ Store(Current, NoFrame)

\* evict: `todelete = list_root.prev_node` (230)
ResizeTodelete ==
    /\ pc["resize"] = "todelete"
    /\ Goto("resize", "unlink")
    /\ Store(Current, [frame EXCEPT !.todelete = node[list_root].prev_node])
    /\ UNCHANGED <<op, ret>>

\* delete_node(todelete) up to the callbacks (284-292); size_callback(None)
\* raises when the node is the root
ResizeUnlink ==
    /\ pc["resize"] = "unlink"
    /\ IF frame.todelete = list_root /\ size_callback # "None"
       THEN /\ Goto("resize", "idle")
            /\ op' = Call("set_cache_factor", None, <<frame.factor>>)
            /\ ret' = None
            /\ Store([unlink(Current, frame.todelete) EXCEPT !.raised = TRUE], NoFrame)
       ELSE /\ Goto("resize", "callbacks")
            /\ Store(unlink(Current, frame.todelete),
                     [frame EXCEPT !.evicted_len = deleted_len(Current, frame.todelete)])
            /\ UNCHANGED <<op, ret>>

\* run_and_clear_callbacks: the loop over the stored callbacks (142-146)
ResizeCallbacks ==
    /\ pc["resize"] = "callbacks"
    /\ Goto("resize", "clear")
    /\ Store([Current EXCEPT !.fired = run_callbacks(@, node[frame.todelete].key,
                                                     node[frame.todelete].callbacks)],
             frame)
    /\ UNCHANGED <<op, ret>>

\* run_and_clear_callbacks: `self.callbacks = None` (148), and the rest of
\* delete_node (296-299)
ResizeClear ==
    /\ pc["resize"] = "clear"
    /\ Goto("resize", "pop")
    /\ Store(dec_memory_usage([Current EXCEPT !.node[frame.todelete].callbacks = <<>>],
                               frame.todelete),
             frame)
    /\ UNCHANGED <<op, ret>>

\* evict: `cache.pop(todelete.key, None)` and metrics.inc_evictions (232-234)
ResizePop ==
    /\ pc["resize"] = "pop"
    /\ Goto("resize", "while")
    /\ Store(inc_evictions(dict_pop(Current, node[frame.todelete].key), frame.evicted_len),
             [frame EXCEPT !.todelete = list_root, !.evicted_len = 0])
    /\ UNCHANGED <<op, ret>>

\* a cache that takes part in scaling, built at factor 1.0, without metrics
InitThreads ==
    /\ LruCache("dict", {Cardinality(ThreadKeys) + 1}, FALSE)
    /\ apply_cache_factor_from_config
    /\ max_size = original_max_size
    /\ ~metrics.registered

NextThreads ==
    \/ \E t \in Workers : Acquire(t)
    \/ \E t \in Workers, key \in ThreadKeys, default \in Defaults :
          Release(t) /\ Get(key, default, <<>>, TRUE)
    \/ \E t \in Workers, key \in ThreadKeys, callbacks \in OneCallbackArgs :
          Release(t) /\ Set(key, <<1>>, callbacks)
    \/ \E t \in Workers, key \in ThreadKeys, default \in Defaults :
          Release(t) /\ Pop(key, default)
    \/ \E t \in Workers, key \in ThreadKeys : Release(t) /\ DelMulti(key)
    \/ \E factor \in FactorHalves : ResizeCall(factor)
    \/ ResizeWhile
    \/ ResizeTodelete
    \/ ResizeUnlink
    \/ ResizeCallbacks
    \/ ResizeClear
    \/ ResizePop

SpecThreads == InitThreads /\ [][NextThreads]_vars

\* no thread is inside an operation
Quiescent == \A t \in Threads : pc[t] = "idle"

\* the index and the recency list hold the same nodes, each once
IndexIsList ==
    /\ Range(cache) = Range(ForwardList)
    /\ Len(ForwardList) = Cardinality(DOMAIN cache)
    /\ BackwardList = Reverse(ForwardList)
    /\ \A k \in DOMAIN cache : node[cache[k]].key = k

\* C17: every public operation, set_cache_factor included, holds the lock of
\* the instance while it runs, and a caller that holds the lock never finds an
\* intermediate state: every indexed entry is linked in the recency list.
C17_Linearizable ==
    /\ \A t \in Threads : pc[t] # "idle" => lock = t
    /\ \A t \in Workers : pc[t] = "locked" => Range(cache) \subseteq Range(ForwardList)

\* C18: a resize that runs beside set/get/pop/del_multi never unlinks an entry
\* that is already unlinked, and once every operation has returned the index
\* matches the list and the running length is the total cost of the entries.
C18_ResizeSafe ==
    /\ pc["resize"] = "unlink" =>
          \/ frame.todelete \in Range(ForwardList)
          \/ frame.todelete = list_root
    /\ Quiescent =>
          /\ IndexIsList
          /\ size_callback # "None" => cached_cache_len = TotalCost(Entries)

\* ------------------------------------- SpecRaise: callbacks that may raise

\* what the callers of this specification pass as callbacks
RaiseArgs == {<<>>, <<"cb1">>, <<"boom">>}

InitRaise == Init /\ metrics.registered

\* A run is followed up to the first exception: what the instance is like
\* when the exception reaches the caller is the last state of the run.

NextRaise ==
    \/ \E key \in CallbackKeys, default \in Defaults, callbacks \in RaiseArgs :
          ~raised /\ Get(key, default, callbacks, TRUE) /\ UNCHANGED <<touched, threads>>
    \/ \E key \in CallbackKeys, value \in Values, callbacks \in RaiseArgs :
          ~raised /\ Set(key, value, callbacks) /\ UNCHANGED <<touched, threads>>
    \/ \E key \in CallbackKeys, default \in Defaults :
          ~raised /\ Pop(key, default) /\ UNCHANGED <<touched, threads>>
    \/ \E key \in CallbackKeys : ~raised /\ DelMulti(key) /\ UNCHANGED <<touched, threads>>
    \/ ~raised /\ Clear /\ UNCHANGED <<touched, threads>>
    \/ \E factor \in FactorHalves : ~raised /\ SetCacheFactor(factor) /\ UNCHANGED <<touched, threads>>

SpecRaise == InitRaise /\ [][NextRaise]_vars

\* the keys of the entries one of whose callbacks raised in the last operation
RaisedFor == {k \in Keys : \E c \in RaisingCallbacks : fired[<<k, c>>] > 0}

\* the last operation destroyed the entry of k: a pop, del_multi or clear, or
\* the eviction of k by a set of another key or by a resize
Destroying(k) ==
    \/ op.name \in {"pop", "del_multi", "clear", "set_cache_factor"}
    \/ op.name = "set" /\ op.key # k

\* C19: when a callback of an entry raises during pop, del_multi, clear or an
\* eviction, the exception reaches the caller, and by then the entry is out of
\* the recency list, its cost is subtracted from the running length and its
\* key is out of the index.
C19_RaiseAfterRemoval ==
    \A k \in RaisedFor :
        Destroying(k) =>
            /\ raised
            /\ k \notin Range(ListKeys)
            /\ size_callback # "None" => cached_cache_len = TotalCost(Entries)
            /\ k \notin DOMAIN cache

\* the callbacks attached to the entry of k
Attached(k) == IF k \in DOMAIN cache THEN Range(StoredCallbacks(k)) ELSE {}

\* the step destroys the entry of k (pop, del_multi, eviction, clear)
Gone(k) == k \in DOMAIN cache /\ k \notin DOMAIN cache'

\* the step leaves the entry of k resident with another value
Replaced(k) ==
    /\ k \in DOMAIN cache
    /\ k \in DOMAIN cache'
    /\ node'[cache'[k]].value # node[cache[k]].value

\* the step is set(k, v, cbs) with v different from the stored value
Replacing(k, cbs) ==
    /\ op'.name = "set"
    /\ op'.key = k
    /\ k \in DOMAIN cache
    /\ op'.value # node[cache[k]].value
    /\ Set(k, op'.value, cbs)

\* C20 as stated: a callback attached to an entry is fired exactly once, by the
\* operation that destroys the entry or replaces its value with a different
\* one; after that operation the entry holds no callbacks; no other operation
\* fires it, and until then it stays attached.
C20_FiredOnceThenDropped ==
    [][\A k \in Keys, cb \in Callbacks :
          IF cb \in Attached(k)
          THEN IF Gone(k) \/ Replaced(k)
               THEN /\ fired'[<<k, cb>>] = 1
                    /\ Attached(k)' = {}
               ELSE /\ fired'[<<k, cb>>] = 0
                    /\ cb \in Attached(k)'
          ELSE \/ fired'[<<k, cb>>] = 0
               \/ /\ fired'[<<k, cb>>] = 1
                  /\ op'.name = "set"
                  /\ op'.key = k
                  /\ k \notin DOMAIN cache']_vars

\* C20 amended: ... fired by the operation that destroys the entry or replaces
\* its value with a different one: once, or twice when that operation is a
\* replacing set that passes the callback again and then evicts the entry.
\* After a replacing set the entry, if still resident, holds exactly the
\* callbacks passed to that set.  No other operation fires the callback, and
\* until then it stays attached.
C20_FiredOncePerAttachment ==
    [][\A k \in Keys, cb \in Callbacks :
          IF cb \in Attached(k)
          THEN IF Gone(k) \/ Replaced(k)
               THEN /\ \A cbs \in CallbackArgs :
                          Replacing(k, cbs) =>
                              /\ fired'[<<k, cb>>] =
                                    IF cb \in Range(cbs) /\ Gone(k) THEN 2 ELSE 1
                              /\ Attached(k)' = IF Gone(k) THEN {} ELSE Range(cbs)
                    /\ (\A cbs \in CallbackArgs : ~Replacing(k, cbs)) =>
                          /\ fired'[<<k, cb>>] = 1
                          /\ Attached(k)' = {}
               ELSE /\ fired'[<<k, cb>>] = 0
                    /\ cb \in Attached(k)'
          ELSE \/ fired'[<<k, cb>>] = 0
               \/ /\ fired'[<<k, cb>>] = 1
                  /\ op'.name = "set"
                  /\ op'.key = k
                  /\ k \notin DOMAIN cache']_vars

\* C20 witness: a set has replaced the value of an entry that held a callback
\* and has passed none: the callback was fired once and the entry holds none
C20_Witness ==
    /\ op.name = "set"
    /\ op.key \in DOMAIN cache
    /\ fired[<<op.key, "cb1">>] = 1
    /\ Attached(op.key) = {}

\* seq holds no element twice
NoDuplicates(seq) == Cardinality(Range(seq)) = Len(seq)

\* C21: no entry's callbacks hold the same callback twice, whatever sets (of new
\* or resident keys) and gets supplied them, a call that passes one callback
\* several times included.
C21_NoDuplicateCallbacks ==
    \A n \in DOMAIN node : NoDuplicates(node[n].callbacks)

\* C21 witness: a get hit has left two callbacks on its entry
C21_Witness ==
    /\ op.name = "get"
    /\ op.key \in DOMAIN cache
    /\ Len(StoredCallbacks(op.key)) = 2

\* ------------------------------- SpecResize: factors of either sign

\* the factors passed to set_cache_factor, in halves: -1.0, -0.5, 0, 0.5, 1.0
ResizeFactors == FactorHalves \cup {-2, -1}

NextResize ==
    \/ \E key \in Keys, value \in Values :
          Set(key, value, <<>>) /\ UNCHANGED <<touched, threads>>
    \/ \E key \in Keys, value \in Values :
          SetDefault(key, value) /\ UNCHANGED <<touched, threads>>
    \/ \E factor \in ResizeFactors :
          SetCacheFactor(factor) /\ UNCHANGED <<touched, threads>>

SpecResize == Init /\ [][NextResize]_vars

\* the operation that led to s has returned: its loop ended and nothing raised
Returns(s) == ~s.hung /\ ~s.raised

\* C22: the eviction loop ends whenever it is called, after set, setdefault or
\* set_cache_factor with any factor; it never unlinks the root.
C22_EvictTerminates ==
    /\ \A factor \in ResizeFactors : Returns(set_cache_factor(Self, factor))
    /\ \A key \in Keys, value \in Values :
          /\ Returns(cache_set(Self, key, value, <<>>, <<>>))
          /\ Returns(cache_set_default(Self, key, value))

\* C23: contains(k) returns true exactly when k is resident, and changes
\* nothing: recency order, callbacks, current cost and counters stay as they were.
C23_Contains ==
    [][op'.name = "contains" =>
          \A k \in {op'.key} :
              Contains(k)
              => /\ ret' = (k \in DOMAIN cache)
                 /\ UNCHANGED <<cache, node, cached_cache_len, max_size>>
                 /\ Entries' = Entries
                 /\ fired' = NoneFired
                 /\ metrics' = CountersUnchanged]_vars

\* C23 witness: contains has found a key that is not at the front of the list
C23_Witness ==
    /\ op.name = "contains"
    /\ ret = TRUE
    /\ Len(ListKeys) >= 2
    /\ ListKeys[1] # op.key

\* seq without the elements equal to x
Without(seq, x) == SelectSeq(seq, LAMBDA e : e # x)

\* the links of the list are as they were
LinksUnchanged ==
    /\ DOMAIN node' = DOMAIN node
    /\ \A n \in DOMAIN node :
          /\ node'[n].prev_node = node[n].prev_node
          /\ node'[n].next_node = node[n].next_node

\* C24: a get hit on k puts k next to the root on the front side, merges the
\* callbacks passed into k's entry and fires none, and leaves the values, the
\* current cost and the order of the other entries as they were; when k is at
\* the front already the list does not change.
C24_GetHit ==
    [][(op'.name = "get" /\ op'.key \in DOMAIN cache) =>
          \A k \in {op'.key}, default \in Defaults, cbs \in CallbackArgs,
             update_metrics \in BOOLEAN :
              Get(k, default, cbs, update_metrics)
              => /\ node'[list_root].next_node = cache[k]
                 /\ ListKeys' = <<k>> \o Without(ListKeys, k)
                 /\ BackwardList' = Reverse(ForwardList')
                 /\ StoredCallbacks(k)' = add_callbacks(StoredCallbacks(k), cbs)
                 /\ fired' = NoneFired
                 /\ cache' = cache
                 /\ \A n \in DOMAIN node :
                       /\ node'[n].value = node[n].value
                       /\ n # cache[k] => node'[n].callbacks = node[n].callbacks
                 /\ cached_cache_len' = cached_cache_len
                 /\ ListKeys[1] = k => LinksUnchanged]_vars

\* C24 witness: a get hit has brought to the front of a list of two entries a
\* key that now holds two callbacks
C24_Witness ==
    /\ op.name = "get"
    /\ Len(ListKeys) = 2
    /\ ListKeys[1] = op.key
    /\ Len(StoredCallbacks(op.key)) = 2

\* the step is set(k, v, cbs) on a resident key
SetResident(k, v, cbs) ==
    /\ op'.name = "set"
    /\ op'.key = k
    /\ op'.value = v
    /\ k \in DOMAIN cache
    /\ Set(k, v, cbs)

\* C25 as stated: set(k, v2, callbacks) on a resident key updates the entry in
\* place: k keeps its one index entry, moves to the front, holds v2, the current
\* cost changes by cost(v2) - cost(old value), and the callbacks passed are
\* attached and not fired by this set, unless the entry is evicted by it.
C25_SetInPlace ==
    [][(op'.name = "set" /\ op'.key \in DOMAIN cache) =>
          \A k \in {op'.key}, v \in {op'.value}, cbs \in CallbackArgs :
              SetResident(k, v, cbs)
              => /\ k \in DOMAIN cache'
                 /\ cache'[k] = cache[k]
                 /\ ListKeys'[1] = k
                 /\ Len(Without(ListKeys', k)) = Len(ListKeys') - 1
                 /\ node'[cache'[k]].value = v
                 /\ CurrentCost' = CurrentCost + Cost(v) - Cost(node[cache[k]].value)
                 /\ Range(cbs) \subseteq Attached(k)'
                 /\ \A cb \in Range(cbs) \ Attached(k) : fired'[<<k, cb>>] = 0]_vars

\* the entry of k after the update in place: value v, the stored callbacks
\* (none left when the value changes) with those passed merged into them
UpdatedEntry(k, v, cbs) ==
    [key |-> k, value |-> v,
     callbacks |-> add_callbacks(IF v # node[cache[k]].value THEN <<>>
                                 ELSE StoredCallbacks(k), cbs)]

\* C25 amended: ... updates the entry in place (same node, one index entry, k at
\* the front, value v2, callbacks passed attached and not fired, current cost
\* changed by cost(v2) - cost(old value)), and then evicts from the tail while
\* the current cost exceeds the capacity: other entries may go, and k itself
\* when cost(v2) exceeds the capacity, in which case its callbacks fire.
C25_SetInPlaceThenEvict ==
    [][(op'.name = "set" /\ op'.key \in DOMAIN cache) =>
          \A k \in {op'.key}, v \in {op'.value}, cbs \in CallbackArgs :
              SetResident(k, v, cbs)
              => LET updated == <<UpdatedEntry(k, v, cbs)>>
                                    \o SelectSeq(Entries, LAMBDA e : e.key # k)
                 IN  /\ Entries' = Evicted(updated, max_size)
                     /\ CurrentCost' = TotalCost(Entries')
                     /\ TotalCost(updated) =
                            CurrentCost + Cost(v) - Cost(node[cache[k]].value)
                     /\ DOMAIN cache' = Range(ListKeys')
                     /\ k \in DOMAIN cache' => cache'[k] = cache[k]
                     /\ \A cb \in Range(cbs) \ Attached(k) :
                           fired'[<<k, cb>>] = IF k \in DOMAIN cache' THEN 0 ELSE 1]_vars

\* C25 witness: a set has replaced the value of a resident key that was not at
\* the front; both entries are still resident and the key holds a callback
C25_Witness ==
    /\ op.name = "set"
    /\ Len(ListKeys) = 2
    /\ ListKeys[1] = op.key
    /\ fired[<<op.key, "cb1">>] = 1
    /\ Attached(op.key) = {"cb2"}

\* what an operation that led to s leaves behind, its return value aside
Outcome(s) ==
    [cache |-> s.cache, node |-> Live(s, list_root), cached_cache_len |-> s.cached_cache_len,
     max_size |-> s.max_size, metrics |-> s.metrics, fired |-> s.fired, raised |-> s.raised]

\* del_multi(k) and pop(k), called now, leave the same behind
SameAsPop(k) ==
    \A order \in Orders(iterate_tree_cache_entry(index_pop(Self, k))), default \in Defaults :
        Outcome(cache_del_multi(Self, k, order)) = Outcome(cache_pop(Self, k, default))

\* C26: on a dict-backed cache del_multi(k) and pop(k) differ in the return
\* value only: from the same state they leave the same index, list, current
\* cost, fired callbacks and counters, for resident and absent k, and also when
\* a callback of k raises.
C26_DelMultiIsPop ==
    cache_type = "dict" => \A k \in CallbackKeys : SameAsPop(k)

\* set_cache_factor(f), called now, returns; the capacity is then the nominal
\* capacity times f, truncated; true is returned exactly when that differs from
\* the capacity before; when false is returned nothing is evicted or fired
ResizeReturns(f) ==
    LET new_size == scaled(original_max_size, f)
        s == set_cache_factor(Self, f)
    IN  /\ Returns(s)
        /\ s.max_size = new_size
        /\ s.ret = (new_size # max_size)
        /\ new_size = max_size =>
              /\ s.cache = cache
              /\ s.node = node
              /\ s.cached_cache_len = cached_cache_len
              /\ s.fired = NoneFired
              /\ s.metrics = CountersUnchanged

\* C27: for a cache that takes part in global scaling, set_cache_factor(f) sets
\* the capacity to nominal capacity x f truncated to an integer and returns true
\* exactly when that integer differs from the capacity before the call; when it
\* returns false no entry is evicted and no callback fires.
C27_ResizeReturn ==
    apply_cache_factor_from_config => \A f \in ResizeFactors : ResizeReturns(f)

\* the hit and miss counters grow by hits and misses in the step
Counted(hits, misses) == metrics'.hits = hits /\ metrics'.misses = misses

\* C28: with metrics registered and update_metrics true, a get hit adds one to
\* the hit counter only and a miss one to the miss counter only; with
\* update_metrics false, or without a cache name, get changes no counter; no
\* other operation changes the hit or the miss counter.
C28_GetMetrics ==
    [][/\ op'.name # "get" => Counted(0, 0)
       /\ op'.name = "get" =>
             \A k \in {op'.key}, default \in Defaults, cbs \in CallbackArgs,
                update_metrics \in BOOLEAN :
                 Get(k, default, cbs, update_metrics)
                 => /\ metrics'.evictions = 0
                    /\ metrics'.memory_usage = metrics.memory_usage
                    /\ IF update_metrics /\ metrics.registered
                       THEN IF k \in DOMAIN cache THEN Counted(1, 0) ELSE Counted(0, 1)
                       ELSE Counted(0, 0)]_vars

\* C28 witness: a get has hit and has counted one hit and no miss
C28_Witness ==
    /\ op.name = "get"
    /\ metrics.hits = 1
    /\ metrics.misses = 0

RECURSIVE TotalMemory(_)
\* the sum of node.memory over a sequence of nodes
TotalMemory(nodes) ==
    IF nodes = <<>> THEN 0 ELSE node[Head(nodes)].memory + TotalMemory(Tail(nodes))

\* the size estimate _Node would compute for the entry of k as it is now
EstimateNow(k) ==
    NewNode(list_root, list_root, k, node[cache[k]].value, StoredCallbacks(k)).memory

\* C29: with memory tracking and metrics enabled, the memory gauge is after
\* every operation the sum, over the resident entries, of the estimate made
\* when the entry was created: raised at creation, lowered by the same amount
\* at pop, del_multi and eviction, reset by clear, and untouched when set
\* replaces the value of a resident key, whose estimate stays as it was.
C29_MemoryIsSum ==
    /\ [](metrics.memory_usage =
              IF TRACK_MEMORY_USAGE /\ metrics.registered THEN TotalMemory(ForwardList) ELSE 0)
    /\ [][\A k \in DOMAIN cache :
             (k \in DOMAIN cache' /\ cache'[k] = cache[k])
             => node'[cache'[k]].memory = node[cache[k]].memory]_vars

\* C29 witness: a set has replaced the value of a resident key by a larger one;
\* the gauge still holds the estimate made at creation
C29_Witness ==
    /\ op.name = "set"
    /\ metrics.registered
    /\ op.key \in DOMAIN cache
    /\ Len(ForwardList) = 1
    /\ metrics.memory_usage = node[cache[op.key]].memory
    /\ metrics.memory_usage < EstimateNow(op.key)

\* ------------------- SpecReenter: callbacks that call back into the cache

\* the operation that led to s stopped in a callback waiting for the lock
Waiting(s) == s.raised /\ \E k \in Keys, c \in ReenteringCallbacks : s.fired[<<k, c>>] > 0

\* what the callers of this specification pass as callbacks
ReenterArgs == {<<>>, <<"reenter">>}

\* A worker holds the lock and its operation has come to a callback that asks
\* for the lock (threading.Lock is not reentrant): what the operation did so far
\* stays, the thread waits and the lock stays held.
Block(t, s) ==
    /\ pc[t] = "locked"
    /\ lock = t
    /\ Waiting(s)
    /\ Goto(t, "blocked")
    /\ Store([s EXCEPT !.raised = FALSE], frame)
    /\ UNCHANGED <<op, ret>>

\* run_and_clear_callbacks inside set_cache_factor, which holds no lock: a
\* callback that calls back into the cache takes the lock when it is free,
\* runs its operation (contains) and releases the lock
ResizeCallbacksUnlocked ==
    /\ (Range(node[frame.todelete].callbacks) \cap ReenteringCallbacks # {}) => lock = "free"
    /\ ResizeCallbacks

NextReenter ==
    \/ \E t \in Workers : Acquire(t)
    \/ \E t \in Workers, key \in ThreadKeys, callbacks \in ReenterArgs :
          Release(t) /\ Set(key, <<1>>, callbacks) /\ ~raised'
    \/ \E t \in Workers, key \in ThreadKeys, default \in Defaults :
          Release(t) /\ Pop(key, default) /\ ~raised'
    \/ \E t \in Workers, key \in ThreadKeys, default \in Defaults :
          Block(t, cache_pop(Self, key, default))
    \/ \E t \in Workers, key \in ThreadKeys, callbacks \in ReenterArgs :
          Block(t, cache_set(Self, key, <<1>>, callbacks, callbacks))
    \/ \E factor \in FactorHalves : ResizeCall(factor)
    \/ ResizeWhile
    \/ ResizeTodelete
    \/ ResizeUnlink
    \/ ResizeCallbacksUnlocked
    \/ ResizeClear
    \/ ResizePop

SpecReenter == InitThreads /\ [][NextReenter]_vars

\* C30: callbacks run inside the critical section, on the thread that caused
\* the mutation, and the lock is not reentrant: when a callback that calls back
\* into the cache has been run, its thread waits for ever with the lock held,
\* and from then on no operation on the instance returns.
C30_ReenteringCallbackBlocks ==
    /\ [](\A k \in Keys, c \in ReenteringCallbacks :
             fired[<<k, c>>] > 0 => \E t \in Threads : pc[t] = "blocked" /\ lock = t)
    /\ [][(\E t \in Threads : pc[t] = "blocked") => op' = op]_vars

\* ------------------------------------------------- the eviction counter

\* the total cost of the resident entries once the call (name, k, v) has
\* inserted or replaced its entry, before any eviction
CostBeforeEviction(name, k, v) ==
    CASE name = "set" ->
           TotalCost(Entries) + Cost(v)
             - (IF k \in DOMAIN cache THEN Cost(node[cache[k]].value) ELSE 0)
      [] name = "setdefault" ->
           TotalCost(Entries) + (IF k \in DOMAIN cache THEN 0 ELSE Cost(v))
      [] OTHER -> TotalCost(Entries)

\* C31: the eviction counter changes only inside the eviction loop.  Each
\* operation adds to it the total cost of the entries the eviction loop removed
\* during that operation: nothing for pop, del_multi, clear, get, contains and
\* len, nothing for a set that replaces a value without exceeding the capacity,
\* and for set, setdefault and set_cache_factor the cost by which the entries
\* shrank after the insertion.  (metrics.evictions is the amount the operation
\* added, so the counter is the sum of these amounts.)
C31_EvictionCounter ==
    [][metrics.registered
       => /\ op'.name \notin {"set", "setdefault", "set_cache_factor"}
             => metrics'.evictions = 0
          /\ op'.name \in {"set", "setdefault", "set_cache_factor"}
             => metrics'.evictions =
                  CostBeforeEviction(op'.name, op'.key, op'.value) - TotalCost(Entries)'
          /\ (/\ op'.name = "set"
              /\ op'.key \in DOMAIN cache
              /\ CostBeforeEviction("set", op'.key, op'.value) <= max_size)
             => metrics'.evictions = 0]_vars

\* C31 witness: a set has evicted an entry of cost 2 and the counter grew by 2
C31_Witness ==
    /\ op.name = "set"
    /\ metrics.registered
    /\ size_callback # "None"
    /\ metrics.evictions = 2
    /\ Len(Entries) = 1
    /\ op.key \in DOMAIN cache

\* --------------------------------- SpecZero: values of cost 0 and capacity 0

\* the values these callers store: the empty list, of cost 0 under the cost
\* function len, and a list of one element
ZeroValues == {<<>>, <<1>>}

NextZero ==
    \/ \E key \in CallbackKeys, value \in ZeroValues, callbacks \in OneCallbackArgs :
          Set(key, value, callbacks) /\ UNCHANGED <<touched, threads>>
    \/ \E key \in CallbackKeys, value \in ZeroValues :
          SetDefault(key, value) /\ UNCHANGED <<touched, threads>>
    \/ \E factor \in FactorHalves :
          SetCacheFactor(factor) /\ UNCHANGED <<touched, threads>>

SpecZero == Init /\ [][NextZero]_vars

\* the step is set(k, v, cbs) or setdefault(k, v), called at capacity 0
AtZero(name) == max_size = 0 /\ op'.name = name

\* C32 as stated: at effective capacity 0 every set(k, v, callbacks) and
\* setdefault(k, v) leaves the cache empty: the entry is inserted and evicted
\* within the call, the callbacks passed to set have fired when it returns, the
\* eviction counter grows by the entry's cost, and setdefault returns v.
C32_ZeroCapacity ==
    [][/\ (AtZero("set") \/ AtZero("setdefault"))
          => /\ cache' = <<>>
             /\ Entries' = <<>>
             /\ metrics.registered => metrics'.evictions = Cost(op'.value)
       /\ AtZero("setdefault") => ret' = op'.value
       /\ AtZero("set")
          => \A cbs \in OneCallbackArgs :
                Set(op'.key, op'.value, cbs)
                => \A cb \in Range(cbs) : fired'[<<op'.key, cb>>] >= 1]_vars

\* C32 amended: at effective capacity 0, set(k, v, callbacks), and
\* setdefault(k, v) on an absent key, with v of cost >= 1 (every value when
\* there is no cost function) leave the cache empty: the entry is inserted and
\* evicted within the call together with whatever was resident, the callbacks
\* passed to set have fired, the eviction counter grows by the cost of
\* what was evicted (the entry's cost, the entries resident at capacity 0
\* costing 0) and setdefault returns v.  An entry of cost 0 is inserted and
\* not evicted: it stays resident with the callbacks passed attached, and the
\* eviction counter is unchanged; setdefault on a resident key returns the
\* stored value and changes nothing.
C32_ZeroCapacityPositiveCost ==
    [][/\ ((AtZero("set") \/ (AtZero("setdefault") /\ op'.key \notin DOMAIN cache))
           /\ Cost(op'.value) >= 1)
          => /\ cache' = <<>>
             /\ Entries' = <<>>
             /\ TotalCost(Entries) = 0
             /\ metrics.registered
                => /\ metrics'.evictions = Cost(op'.value)
                   /\ metrics'.evictions
                        = CostBeforeEviction(op'.name, op'.key, op'.value)
             /\ op'.name = "setdefault" => ret' = op'.value
             /\ op'.name = "set"
                => \A cbs \in OneCallbackArgs :
                      Set(op'.key, op'.value, cbs)
                      => \A cb \in Range(cbs) : fired'[<<op'.key, cb>>] >= 1
       /\ ((AtZero("set") \/ (AtZero("setdefault") /\ op'.key \notin DOMAIN cache))
           /\ Cost(op'.value) = 0)
          => /\ ListKeys' = <<op'.key>> \o Without(ListKeys, op'.key)
             /\ DOMAIN cache' = DOMAIN cache \cup {op'.key}
             /\ node'[cache'[op'.key]].value = op'.value
             /\ metrics'.evictions = 0
             /\ op'.name = "setdefault" => ret' = op'.value
             /\ op'.name = "set"
                => \A cbs \in OneCallbackArgs :
                      Set(op'.key, op'.value, cbs)
                      => \A cb \in Range(cbs) :
                            cb \in Range(node'[cache'[op'.key]].callbacks)
       /\ (AtZero("setdefault") /\ op'.key \in DOMAIN cache)
          => /\ ret' = node[cache[op'.key]].value
             /\ UNCHANGED <<cache, node, cached_cache_len>>
             /\ metrics'.evictions = 0
             /\ fired' = NoneFired]_vars

\* C32 witness: at capacity 0, with an entry of cost 0 resident, a set with a
\* callback has inserted an entry of cost 1, and the cache is empty
C32_Witness ==
    /\ op.name = "set"
    /\ max_size = 0
    /\ size_callback # "None"
    /\ Cost(op.value) = 1
    /\ cache = <<>>
    /\ fired[<<op.key, "cb1">>] = 1
    /\ \E k \in CallbackKeys \ {op.key} : fired[<<k, "cb1">>] = 1
    /\ metrics.evictions = 1

\* ------------------------------------------- a callback that raises in set

\* the step is a set on a resident key holding another value, and it raised
RaisedInSet ==
    /\ op'.name = "set"
    /\ raised'
    /\ op'.key \in DOMAIN cache
    /\ node[cache[op'.key]].value # op'.value

\* the instance is after the step as it was before it
AsBefore ==
    /\ cache' = cache
    /\ node' = node
    /\ cached_cache_len' = cached_cache_len
    /\ max_size' = max_size
    /\ Entries' = Entries
    /\ metrics'.evictions = 0

\* C33 as stated: when a callback raises during set(k, v2) on a resident key
\* whose stored value differs from v2, the exception reaches the caller and the
\* cache is as before the call: old value, same cost and recency order, no
\* eviction, the entry's callbacks still attached in full.
C33_RaiseInSetRestores == [][RaisedInSet => AsBefore]_vars

\* the last operation was a set on k that stopped in a callback of k's entry
\* before the value was replaced
StoppedInSet(k) ==
    /\ op.name = "set"
    /\ op.key = k
    /\ raised
    /\ k \in DOMAIN cache
    /\ node[cache[k]].value # op.value
    /\ \E c \in RaisingCallbacks : c \in Range(StoredCallbacks(k)) /\ fired[<<k, c>>] > 0

\* C33 amended: when a callback that was attached to the entry of k before the
\* call raises during set(k, v2) on a resident key whose stored value differs
\* from v2, the exception reaches the caller and the cache is as before the
\* call (old value, same cost and recency order, no eviction, the entry's
\* callbacks attached in full, so that those that ran in this call run again
\* on a later removal).  A callback passed to this set, or one of another
\* entry, raises only in the eviction, after the entry has been updated.
C33_AttachedCallbackRaises ==
    /\ [][(RaisedInSet /\ Range(StoredCallbacks(op'.key)) \cap RaisingCallbacks # {})
          => /\ AsBefore
             /\ \A c \in Callbacks \cup RaisingCallbacks :
                   fired'[<<op'.key, c>>] > 0 => c \in Range(StoredCallbacks(op'.key))]_vars
    /\ [][(RaisedInSet /\ Range(StoredCallbacks(op'.key)) \cap RaisingCallbacks = {})
          => /\ node'[cache'[op'.key]].value = op'.value
             /\ \A c \in Range(StoredCallbacks(op'.key)) :
                   fired'[<<op'.key, c>>] >= 1]_vars
    /\ [](\A k \in Keys, d \in Defaults :
             StoppedInSet(k)
             => \A c \in Callbacks :
                   fired[<<k, c>>] > 0 => cache_pop(Self, k, d).fired[<<k, c>>] = 1)

\* C33 witness: a set of another value on a key holding the callbacks cb1
\* and boom has run cb1 and stopped in boom; both are still attached
C33_Witness ==
    /\ op.name = "set"
    /\ raised
    /\ op.key \in DOMAIN cache
    /\ node[cache[op.key]].value # op.value
    /\ StoredCallbacks(op.key) = <<"cb1", "boom">>
    /\ fired[<<op.key, "cb1">>] = 1
    /\ fired[<<op.key, "boom">>] = 1

\* ------------------------- sorted_topologically (synapse/util/iterutils.py)

\* the LruCache instance, which the callers below do not use
Unused ==
    /\ LruCache("dict", {1}, FALSE)
    /\ size_callback = "None"
    /\ ~apply_cache_factor_from_config
    /\ ~metrics.registered

\* only `call` changes
CallStep(c) ==
    /\ call' = c
    /\ UNCHANGED <<op, cache, node, cached_cache_len, max_size, metrics, size_callback,
                   apply_cache_factor_from_config, original_max_size, cache_type,
                   TRACK_MEMORY_USAGE, raised, fired, ret, lock, pc, frame, touched>>

\* what nodes and graph are made of: comparable values
MaxTopoNode == 3
TopoValues == 1..MaxTopoNode

\* the graphs passed: a mapping from some values to collections of values
TopoGraphs == UNION {[K -> SUBSET TopoValues] : K \in SUBSET TopoValues}

\* the orders in which a set may be iterated
IterationOrders(set) == {o \in [1..Cardinality(set) -> set] : Range(o) = set}

\* degree_map after the loop over graph.items() (73-82): for each node of
\* nodes, the number of its distinct edges that are in nodes
degree_map_of(nodes, graph) ==
    [n \in nodes |->
        IF n \in DOMAIN graph THEN Cardinality({e \in graph[n] : e \in nodes}) ELSE 0]

\* reverse_graph after that loop: edge -> the nodes of nodes listing it, with
\* an empty set for every node of nodes that is a key of graph
reverse_graph_of(nodes, graph) ==
    LET keys == DOMAIN graph \cap nodes
    IN  [e \in keys \cup UNION {graph[n] : n \in keys} |->
            {n \in keys : e \in graph[n]}]

\* mutant: the element at the front of the list is taken
heappop_first(heap) == Head(heap)

\* heapq.heappop: the smallest element of the heap
heappop(heap) == CHOOSE x \in Range(heap) : \A y \in Range(heap) : x <= y

\* the heap without the element popped
popped(heap, x) == SelectSeq(heap, LAMBDA y : y # x)

\* the call of sorted_topologically up to the loop (73-85); dict_order is the
\* order in which degree_map.items() is iterated
SortedTopologically(nodes, graph, dict_order) ==
    /\ call = NoCall
    /\ CallStep([name |-> "sorted_topologically", nodes |-> nodes, graph |-> graph,
                 degree_map |-> degree_map_of(nodes, graph),
                 reverse_graph |-> reverse_graph_of(nodes, graph),
                 zero_degree |-> SelectSeq(dict_order,
                                           LAMBDA n : degree_map_of(nodes, graph)[n] = 0),
                 yielded |-> <<>>, pc |-> "while"])

\* one round of `while zero_degree` (87-95): the smallest node is popped and
\* yielded, and the nodes it frees are pushed, in the order the set is iterated
TopoYield ==
    /\ call.name = "sorted_topologically"
    /\ call.pc = "while"
    /\ call.zero_degree # <<>>
    /\ LET n == heappop(call.zero_degree)
           edges == IF n \in DOMAIN call.reverse_graph
                    THEN {e \in call.reverse_graph[n] : e \in DOMAIN call.degree_map}
                    ELSE {}
           degree_map == [m \in DOMAIN call.degree_map |->
                            IF m \in edges THEN call.degree_map[m] - 1
                            ELSE call.degree_map[m]]
       IN  \E pushed \in IterationOrders({e \in edges : degree_map[e] = 0}) :
              CallStep([call EXCEPT !.degree_map = degree_map,
                                    !.zero_degree = popped(call.zero_degree, n) \o pushed,
                                    !.yielded = Append(@, n)])

\* the loop ends: the generator is exhausted
TopoReturn ==
    /\ call.name = "sorted_topologically"
    /\ call.pc = "while"
    /\ call.zero_degree = <<>>
    /\ CallStep([call EXCEPT !.pc = "done"])

NextTopo ==
    \/ \E nodes \in SUBSET TopoValues, graph \in TopoGraphs :
          \E dict_order \in IterationOrders(nodes) :
             SortedTopologically(nodes, graph, dict_order)
    \/ TopoYield
    \/ TopoReturn

SpecTopo == Unused /\ [][NextTopo]_vars

\* the nodes of nodes that graph lists for n
TopoDeps(n) ==
    IF n \in DOMAIN call.graph THEN call.graph[n] \cap call.nodes ELSE {}

RECURSIVE TopoReach(_, _)
\* the nodes reached from the set `from` along at most `fuel` more edges
TopoReach(from, fuel) ==
    IF fuel = 0 THEN from
    ELSE TopoReach(from \cup UNION {TopoDeps(n) : n \in from}, fuel - 1)

\* graph restricted to nodes has no cycle
TopoAcyclic == \A n \in call.nodes : n \notin TopoReach(TopoDeps(n), MaxTopoNode)

\* the nodes not in `done` all of whose edges within nodes are in `done`
TopoReady(done) == {n \in call.nodes \ done : TopoDeps(n) \subseteq done}

\* C34: on a graph that is acyclic when restricted to nodes,
\* sorted_topologically yields every node of nodes exactly once, each after
\* every node of nodes that graph lists for it, and each time the smallest of
\* the nodes that are ready; the output does not depend on the order in which
\* the inputs are iterated, and edges to elements outside nodes are ignored.
C34_SortedTopologically ==
    (call.name = "sorted_topologically" /\ TopoAcyclic)
    => LET y == call.yielded
           before(i) == {y[j] : j \in 1..(i - 1)}
       IN  /\ \A i \in 1..Len(y) :
                 /\ y[i] \in call.nodes
                 /\ y[i] \notin before(i)
                 /\ TopoDeps(y[i]) \subseteq before(i)
                 /\ \A n \in TopoReady(before(i)) : y[i] <= n
           /\ call.pc = "done" => Range(y) = call.nodes
           /\ call.pc = "while" /\ call.zero_degree = <<>> => Range(y) = call.nodes

\* C34 witness: nodes {1, 2, 3}, 1 listing 2: the generator is exhausted having
\* yielded 2, then 1 (ready by then, and smaller than 3, ready from the start),
\* then 3
C34_Witness ==
    /\ call.name = "sorted_topologically"
    /\ call.pc = "done"
    /\ call.nodes = {1, 2, 3}
    /\ DOMAIN call.graph = {1}
    /\ call.graph[1] = {2}
    /\ call.yielded = <<2, 1, 3>>

\* ------------------------------ SpamChecker (synapse/events/spamcheck.py)

\* how many spam checker modules are configured, at most
MaxCheckers == 3

\* what a module's check_event_for_spam returns: False, True, None, the
\* empty string or an error message
EventResults == {"False", "True", "None", "str:", "str:spam"}

\* the truth value `if` gives a result
truthy(result) == result \notin {"False", "None", "str:"}

\* the sequences of at most MaxCheckers elements of set
UpTo(set) == UNION {[1..n -> set] : n \in 0..MaxCheckers}

\* check_event_for_spam is called: self.spam_checkers are modules returning
\* `results`; none is consulted yet
CheckEventForSpam(results) ==
    /\ call = NoCall
    /\ CallStep([name |-> "check_event_for_spam", spam_checkers |-> results,
                 consulted |-> 0, pc |-> "for", ret |-> "None"])

\* one round of the loop (64-65): the next checker is consulted, and when its
\* result is true check_event_for_spam returns True
EventConsult ==
    /\ call.name = "check_event_for_spam"
    /\ call.pc = "for"
    /\ call.consulted < Len(call.spam_checkers)
    /\ LET i == call.consulted + 1
       IN  IF truthy(call.spam_checkers[i])
           THEN CallStep([call EXCEPT !.consulted = i, !.pc = "done", !.ret = "True"])
           ELSE CallStep([call EXCEPT !.consulted = i])

\* the loop is over: `return False` (67)
EventReturnFalse ==
    /\ call.name = "check_event_for_spam"
    /\ call.pc = "for"
    /\ call.consulted = Len(call.spam_checkers)
    /\ CallStep([call EXCEPT !.pc = "done", !.ret = "False"])

NextEventSpam ==
    \/ \E results \in UpTo(EventResults) : CheckEventForSpam(results)
    \/ EventConsult
    \/ EventReturnFalse

SpecEventSpam == Unused /\ [][NextEventSpam]_vars

\* the checkers that report the event as spammy
Reporting == {i \in 1..Len(call.spam_checkers) : truthy(call.spam_checkers[i])}

\* the first of them
FirstReporting == CHOOSE i \in Reporting : \A j \in Reporting : i <= j

\* C35: check_event_for_spam consults the checkers in configured order and
\* stops at the first that reports the event as spammy; it returns False when
\* none does, and when the reporting checker returned a string, that string
\* is the result.
C35_CheckEventForSpam ==
    (call.name = "check_event_for_spam" /\ call.pc = "done")
    => IF Reporting = {}
       THEN call.ret = "False" /\ call.consulted = Len(call.spam_checkers)
       ELSE /\ call.consulted = FirstReporting
            /\ call.ret # "False"
            /\ call.spam_checkers[FirstReporting] # "True"
               => call.ret = call.spam_checkers[FirstReporting]

\* ------------------------------------------- check_registration_for_spam

\* the members of RegistrationBehaviour
RegistrationBehaviour == {"ALLOW", "SHADOW_BAN", "DENY"}

\* a configured module: without the method check_registration_for_spam, or
\* with one taking `parameters` parameters and returning `behaviour`
NoMethod == [method |-> FALSE, parameters |-> 0, behaviour |-> "ALLOW"]
RegistrationCheckers ==
    {NoMethod}
      \cup [method : {TRUE}, parameters : {3, 4}, behaviour : RegistrationBehaviour]
      \cup [method : {TRUE}, parameters : {2, 5}, behaviour : {"ALLOW"}]

\* mutant: a checker with another signature is passed over
consult_skipping_invalid(c, i) ==
    LET spam_checker == c.spam_checkers[i]
        next == [c EXCEPT !.consulted = i]
        called == [next EXCEPT !.called = Append(@, <<i, spam_checker.parameters>>)]
    IN  IF ~spam_checker.method \/ spam_checker.parameters \notin {3, 4} THEN next
        ELSE IF spam_checker.behaviour # "ALLOW"
        THEN [called EXCEPT !.pc = "done", !.ret = spam_checker.behaviour]
        ELSE called

\* one round of the loop (214-240) for the i-th checker; `called` records the
\* checkers called and the number of arguments each was given
consult(c, i) ==
    LET spam_checker == c.spam_checkers[i]
        next == [c EXCEPT !.consulted = i]
        called == [next EXCEPT !.called = Append(@, <<i, spam_checker.parameters>>)]
    IN  IF ~spam_checker.method THEN next
        ELSE IF spam_checker.parameters \notin {3, 4}
        THEN [next EXCEPT !.pc = "done", !.ret = "DENY"]
        ELSE IF spam_checker.behaviour # "ALLOW"
        THEN [called EXCEPT !.pc = "done", !.ret = spam_checker.behaviour]
        ELSE called

\* check_registration_for_spam is called
CheckRegistrationForSpam(checkers) ==
    /\ call = NoCall
    /\ CallStep([name |-> "check_registration_for_spam", spam_checkers |-> checkers,
                 consulted |-> 0, called |-> <<>>, pc |-> "for", ret |-> "None"])

RegistrationConsult ==
    /\ call.name = "check_registration_for_spam"
    /\ call.pc = "for"
    /\ call.consulted < Len(call.spam_checkers)
    /\ CallStep(consult(call, call.consulted + 1))

\* the loop is over: `return RegistrationBehaviour.ALLOW` (242)
RegistrationReturnAllow ==
    /\ call.name = "check_registration_for_spam"
    /\ call.pc = "for"
    /\ call.consulted = Len(call.spam_checkers)
    /\ CallStep([call EXCEPT !.pc = "done", !.ret = "ALLOW"])

NextRegistration ==
    \/ \E checkers \in UpTo(RegistrationCheckers) : CheckRegistrationForSpam(checkers)
    \/ RegistrationConsult
    \/ RegistrationReturnAllow

SpecRegistration == Unused /\ [][NextRegistration]_vars

\* the checker has the method, with a signature of 3 or 4 parameters
Valid(checker) == checker.method /\ checker.parameters \in {3, 4}

\* the checkers at which the loop ends: one with the method and another
\* signature, or one whose result is not ALLOW
Deciding ==
    {i \in 1..Len(call.spam_checkers) :
        LET checker == call.spam_checkers[i]
        IN  checker.method /\ (~Valid(checker) \/ checker.behaviour # "ALLOW")}

FirstDeciding == CHOOSE i \in Deciding : \A j \in Deciding : i <= j

\* the checkers among the first n that have a method to call, in order, each
\* with the number of arguments its signature takes
CalledUpTo(n) ==
    LET called(i) == <<i, call.spam_checkers[i].parameters>>
        F[i \in 0..n] ==
            IF i = 0 THEN <<>>
            ELSE IF Valid(call.spam_checkers[i]) THEN Append(F[i - 1], called(i))
            ELSE F[i - 1]
    IN  F[n]

\* C36: check_registration_for_spam consults the checkers in configured
\* order, skipping those without the method; it returns the first result that
\* is not ALLOW, or DENY at a checker whose method takes neither 3 nor 4
\* parameters (which is not called), consulting no later checker; it returns
\* ALLOW only if every checker consulted returned ALLOW.
C36_CheckRegistrationForSpam ==
    (call.name = "check_registration_for_spam" /\ call.pc = "done")
    => IF Deciding = {}
       THEN /\ call.ret = "ALLOW"
            /\ call.called = CalledUpTo(Len(call.spam_checkers))
       ELSE LET checker == call.spam_checkers[FirstDeciding]
            IN  /\ call.ret = IF Valid(checker) THEN checker.behaviour ELSE "DENY"
                /\ call.ret # "ALLOW"
                /\ call.called = CalledUpTo(FirstDeciding)
                /\ call.consulted = FirstDeciding

\* C36 witness: a module without the method, one that allows, one whose
\* method takes 5 parameters: the second alone was called, the result is DENY
C36_Witness ==
    /\ call.name = "check_registration_for_spam"
    /\ call.pc = "done"
    /\ Len(call.spam_checkers) = 3
    /\ ~call.spam_checkers[1].method
    /\ call.spam_checkers[2] = [method |-> TRUE, parameters |-> 4, behaviour |-> "ALLOW"]
    /\ call.spam_checkers[3].parameters = 5
    /\ call.called = <<<<2, 4>>>>
    /\ call.ret = "DENY"

\* ----------------------------- TlsConfig.read_config (synapse/config/tls.py)

\* Strings are sequences of characters.  A value of the config dict is an
\* int n, a float (n hundredths), a str s or None.

\* the largest number configured, in hundredths
MaxHundredths == 200

PyInt(n) == [type |-> "int", n |-> n, s |-> <<>>]
PyFloat(hundredths) == [type |-> "float", n |-> hundredths, s |-> <<>>]
PyStr(s) == [type |-> "str", n |-> 0, s |-> s]
PyNone == [type |-> "NoneType", n |-> 0, s |-> <<>>]

\* the strings configured
TlsStrings ==
    {<<"1">>, <<"1", ".", "1">>, <<"1", ".", "2">>, <<"1", ".", "3">>,
     <<"1", ".", "0">>, <<"1", ".", "1", "0">>, <<"2">>, <<>>, <<"1", ".">>,
     <<" ", "1">>, <<"1", ".", "3", " ">>}

\* what the option is set to in the config dict
TlsValues ==
    {PyInt(n) : n \in 0..(MaxHundredths \div 100)}
      \cup {PyFloat(h) : h \in 0..MaxHundredths}
      \cup {PyStr(s) : s \in TlsStrings}
      \cup {PyNone}

\* the config dicts: the option absent, or set
TlsConfigs == {<<>>} \cup {<<v>> : v \in TlsValues}

\* the decimal digits of a natural number
RECURSIVE digits(_)
digits(n) ==
    IF n < 10 THEN <<SubSeq(<<"0", "1", "2", "3", "4", "5", "6", "7", "8", "9">>,
                            n + 1, n + 1)[1]>>
    ELSE digits(n \div 10) \o digits(n % 10)

\* mutant: a float without fraction is written as an int is
str_trimming(value) ==
    CASE value.type = "int" -> digits(value.n)
      [] value.type = "float" ->
           digits(value.n \div 100)
             \o (IF value.n % 100 = 0 THEN <<>>
                 ELSE IF value.n % 10 = 0 THEN <<".">> \o digits((value.n % 100) \div 10)
                 ELSE <<".">> \o digits((value.n % 100) \div 10) \o digits(value.n % 10))
      [] value.type = "str" -> value.s
      [] OTHER -> <<"N", "o", "n", "e">>

\* str(value): an int gives its digits, a float the shortest decimal that
\* reads back as it, with at least one digit after the point
str(value) ==
    CASE value.type = "int" -> digits(value.n)
      [] value.type = "float" ->
           digits(value.n \div 100) \o <<".">>
             \o (IF value.n % 10 = 0 THEN digits((value.n % 100) \div 10)
                 ELSE digits((value.n % 100) \div 10) \o digits(value.n % 10))
      [] value.type = "str" -> value.s
      [] OTHER -> <<"N", "o", "n", "e">>

\* config.get("federation_client_minimum_tls_version", 1)
config_get(config) == IF config = <<>> THEN PyInt(1) ELSE config[1]

\* read_config, the part on federation_client_minimum_tls_version (88-107);
\* OP_NO_TLSv1_3 tells whether the OpenSSL binding has that attribute
read_config(config, OP_NO_TLSv1_3) ==
    LET federation_client_minimum_tls_version == str(config_get(config))
        self == [name |-> "read_config", config |-> config, OP_NO_TLSv1_3 |-> OP_NO_TLSv1_3,
                 federation_client_minimum_tls_version |->
                     federation_client_minimum_tls_version,
                 raised |-> "no"]
    IN  IF federation_client_minimum_tls_version
             \notin {<<"1">>, <<"1", ".", "1">>, <<"1", ".", "2">>, <<"1", ".", "3">>}
        THEN [self EXCEPT !.raised = "ConfigError: must be one of: 1, 1.1, 1.2, 1.3"]
        ELSE IF federation_client_minimum_tls_version = <<"1", ".", "3">>
                  /\ ~OP_NO_TLSv1_3
        THEN [self EXCEPT !.raised = "ConfigError: cannot be 1.3"]
        ELSE self

ReadConfig(config, OP_NO_TLSv1_3) ==
    /\ call = NoCall
    /\ CallStep(read_config(config, OP_NO_TLSv1_3))

NextTls ==
    \E config \in TlsConfigs, OP_NO_TLSv1_3 \in BOOLEAN : ReadConfig(config, OP_NO_TLSv1_3)

SpecTls == Unused /\ [][NextTls]_vars

\* the version a config value names, in hundredths (0 when it names none):
\* the int 1, the floats 1.1, 1.2, 1.3 and the strings 1, 1.1, 1.2, 1.3
NamedVersion(value) ==
    CASE value.type = "int" /\ value.n = 1 -> 100
      [] value.type = "float" /\ value.n \in {110, 120, 130} -> value.n
      [] value = PyStr(<<"1">>) -> 100
      [] value = PyStr(<<"1", ".", "1">>) -> 110
      [] value = PyStr(<<"1", ".", "2">>) -> 120
      [] value = PyStr(<<"1", ".", "3">>) -> 130
      [] OTHER -> 0

\* how the four versions are stored
Stored(version) ==
    CASE version = 100 -> <<"1">>
      [] version = 110 -> <<"1", ".", "1">>
      [] version = 120 -> <<"1", ".", "2">>
      [] version = 130 -> <<"1", ".", "3">>

\* C37: read_config accepts federation_client_minimum_tls_version exactly when
\* its string form is one of 1, 1.1, 1.2, 1.3 (given as a number or as a
\* string) and stores the string form, "1" when the option is absent; any
\* other value raises ConfigError, and so does 1.3 when the OpenSSL binding
\* has no OP_NO_TLSv1_3.
C37_MinimumTlsVersion ==
    call.name = "read_config"
    => LET version == IF call.config = <<>> THEN 100 ELSE NamedVersion(call.config[1])
       IN  /\ call.raised = "no"
                <=> (version # 0 /\ (version = 130 => call.OP_NO_TLSv1_3))
           /\ call.raised = "no"
                => call.federation_client_minimum_tls_version = Stored(version)
           /\ (version = 130 /\ ~call.OP_NO_TLSv1_3)
                => call.raised = "ConfigError: cannot be 1.3"
           /\ version = 0
                => call.raised = "ConfigError: must be one of: 1, 1.1, 1.2, 1.3"

\* C37 witness: the float 1.3 is configured and the binding has no
\* OP_NO_TLSv1_3: ConfigError
C37_Witness ==
    /\ call.name = "read_config"
    /\ call.config = <<PyFloat(130)>>
    /\ ~call.OP_NO_TLSv1_3
    /\ call.federation_client_minimum_tls_version = <<"1", ".", "3">>
    /\ call.raised = "ConfigError: cannot be 1.3"

====
